---- MODULE Spec2Model ----
(***************************************************************************)
(* Model of the CSV -> PDF report generators: generate_report_alarm.py,    *)
(* generate_report_batch.py, generate_report_operlog.py (with              *)
(* report_utils.py), the all-in-one generate_report.py and the date-folder *)
(* locator shared by generate_report_operlog.py and                        *)
(* print_latest_pdf_from_recent_folder.py.                                 *)
(*                                                                         *)
(* Text is modelled as a sequence of one-character strings, so that        *)
(* str.strip, str.replace, str.lower, str.upper and str.startswith are     *)
(* computed character by character as Python computes them.                *)
(***************************************************************************)
EXTENDS Integers, Sequences, FiniteSets, TLC

VARIABLES
    pc,            \* position of main()
    gen,           \* the script that runs: "alarm", "batch" or "operlog"; the mode in generate_report.py
    csv_path,      \* name of the selected CSV file
    raw,           \* what pd.read_csv yields: [ok, cols, nrows]
    df,            \* the dataframe held by main(): [none, cols, nrows]
    missing_cols,  \* list of required columns the file did not supply
    story,         \* the flowables handed to doc.build
    exit_code,     \* process exit status, -1 while running
    output,        \* TRUE once doc.build has written the PDF file
    error,         \* the exception main() of generate_report.py caught, "" when none
    entries,       \* os.listdir(base_directory): sequence of [name, isdir, files]
    found,         \* result of the locator: [none, date, dir, file]
    printer,       \* the print step: [os, state, waited, requests, alerts, notepad]
    log            \* the lines of the log file kept beside the executable

vars == <<pc, gen, csv_path, raw, df, missing_cols, story, exit_code, output, error, entries, found, printer, log>>

\* nothing was asked of the printer
NoPrinter == [os |-> "posix", state |-> "Idle", waited |-> 0, requests |-> 0,
              alerts |-> 0, notepad |-> 0]

----------------------------------------------------------------------------
(* Bounds *)

MaxRows == 3   \* data rows below the header: 0..MaxRows
MaxRot  == 1   \* file column orders: rotations 0..MaxRot of the pool order, each also reversed

----------------------------------------------------------------------------
(* Characters and Python str methods *)

UpperChars == <<"A","B","C","D","E","F","G","H","I","J","K","L","M",
                "N","O","P","Q","R","S","T","U","V","W","X","Y","Z">>
LowerChars == <<"a","b","c","d","e","f","g","h","i","j","k","l","m",
                "n","o","p","q","r","s","t","u","v","w","x","y","z">>
Digits     == <<"0","1","2","3","4","5","6","7","8","9">>

IndexIn(c, s) == IF \E i \in 1..Len(s) : s[i] = c
                 THEN CHOOSE i \in 1..Len(s) : s[i] = c
                 ELSE 0

UpperSet == {UpperChars[i] : i \in 1..26}
LowerSet == {LowerChars[i] : i \in 1..26}
DigitSet == {Digits[i] : i \in 1..10}

ToLower == [c \in UpperSet |-> LowerChars[IndexIn(c, UpperChars)]]
ToUpper == [c \in LowerSet |-> UpperChars[IndexIn(c, LowerChars)]]

IsUpperChar(c) == c \in UpperSet
IsLowerChar(c) == c \in LowerSet
IsDigit(c)     == c \in DigitSet
IsSpace(c)     == c \in {" ", "\t", "\n", "\r"}
IsQuote(c)     == c \in {"\"", "'"}

LowerChar(c) == IF IsUpperChar(c) THEN ToLower[c] ELSE c
UpperChar(c) == IF IsLowerChar(c) THEN ToUpper[c] ELSE c

\* str.lower() / str.upper()
lower(s) == [i \in 1..Len(s) |-> LowerChar(s[i])]
upper(s) == [i \in 1..Len(s) |-> UpperChar(s[i])]

\* str.startswith(prefix)
startswith(s, prefix) ==
    /\ Len(prefix) <= Len(s)
    /\ \A i \in 1..Len(prefix) : s[i] = prefix[i]

\* str.endswith(suffix)
endswith(s, suffix) ==
    /\ Len(suffix) <= Len(s)
    /\ \A i \in 1..Len(suffix) : s[Len(s) - Len(suffix) + i] = suffix[i]

\* `needle in s` for strings
contains(s, needle) ==
    \E k \in 0..(Len(s) - Len(needle)) :
        \A i \in 1..Len(needle) : s[k + i] = needle[i]

\* str.strip(): drop leading and trailing whitespace
strip(s) ==
    LET keep == {i \in 1..Len(s) : ~IsSpace(s[i])}
    IN  IF keep = {} THEN <<>>
        ELSE LET lo == CHOOSE i \in keep : \A j \in keep : i <= j
                 hi == CHOOSE i \in keep : \A j \in keep : j <= i
             IN  SubSeq(s, lo, hi)

NotQuote(c) == ~IsQuote(c)

\* .replace('"', '').replace("'", "")
remove_quotes(s) == SelectSeq(s, NotQuote)

\* mutant: quote characters are left in place
clean_name_keep_quotes(s) == strip(s)

\* .str.strip().str.replace('"', '').str.replace("'", "")
clean_name(s) == remove_quotes(strip(s))

\* pathlib: PurePath(name).stem for a bare file name
stem(name) ==
    LET dots == {i \in 1..Len(name) : name[i] = "."}
    IN  IF dots = {} THEN name
        ELSE LET i == CHOOSE d \in dots : \A e \in dots : e <= d
             IN  IF 1 < i /\ i < Len(name) THEN SubSeq(name, 1, i - 1) ELSE name

----------------------------------------------------------------------------
(* Column names *)

cDate == <<"D", "a", "t", "e">>
cTime == <<"T", "i", "m", "e">>
cAlarmMessage == <<"A", "l", "a", "r", "m", " ", "M", "e", "s", "s", "a", "g", "e">>
cAlarmStatus == <<"A", "l", "a", "r", "m", " ", "S", "t", "a", "t", "u", "s">>
cUser == <<"U", "s", "e", "r">>
cObject_Action == <<"O", "b", "j", "e", "c", "t", "_", "A", "c", "t", "i", "o", "n">>
cTrigger == <<"T", "r", "i", "g", "g", "e", "r">>
cPreviousValue == <<"P", "r", "e", "v", "i", "o", "u", "s", "V", "a", "l", "u", "e">>
cChangedValue == <<"C", "h", "a", "n", "g", "e", "d", "V", "a", "l", "u", "e">>
cUSER == <<"U", "S", "E", "R">>
cTEMP_AIR_IN == <<"T", "E", "M", "P", "_", "A", "I", "R", "_", "I", "N">>
cTEMP_PRODUCT_1 == <<"T", "E", "M", "P", "_", "P", "R", "O", "D", "U", "C", "T", "_", "1">>
cTEMP_PRODUCT_2 == <<"T", "E", "M", "P", "_", "P", "R", "O", "D", "U", "C", "T", "_", "2">>
cTEMP_PRODUCT_3 == <<"T", "E", "M", "P", "_", "P", "R", "O", "D", "U", "C", "T", "_", "3">>
cScreen == <<"S", "c", "r", "e", "e", "n">>
cDateTime == <<"D", "a", "t", "e", "T", "i", "m", "e">>
cQF == <<"Q", "F">>
c_QF == <<"_", "Q", "F">>

\* raw header spellings found in export files
rQDate == <<"'", "d", "A", "T", "E", "'">>
rQTime == <<"'", "t", "I", "M", "E", "'", " ">>
rQAlarmMessage == <<"'", "a", "l", "a", "r", "m", " ", "M", "E", "S", "S", "A", "G", "E", "'">>
rQAlarmStatus == <<"'", "A", "L", "A", "R", "M", " ", "s", "t", "a", "t", "u", "s", "'">>
rDATE == <<"D", "A", "T", "E">>
rdate == <<"d", "a", "t", "e">>
rExtra == <<"E", "x", "t", "r", "a">>
rQUser == <<"'", "U", "s", "e", "r", "'">>
rTempQF == <<"T", "E", "M", "P", "_", "A", "I", "R", "_", "I", "N", "_", "Q", "F">>
robject_action == <<"o", "b", "j", "e", "c", "t", "_", "a", "c", "t", "i", "o", "n">>

\* required_cols of each loader (the SchemaSpec of each mode)
required_cols(g) ==
    CASE g = "alarm"   -> <<cDate, cTime, cAlarmMessage, cAlarmStatus>>
      [] g = "operlog" -> <<cDate, cTime, cUser, cObject_Action, cTrigger,
                            cPreviousValue, cChangedValue>>
      [] g = "batch"   -> <<cDate, cTime, cUSER, cTEMP_AIR_IN, cTEMP_PRODUCT_1,
                            cTEMP_PRODUCT_2, cTEMP_PRODUCT_3>>

Range(s) == {s[i] : i \in 1..Len(s)}

\* the locator found nothing yet: no date, no folder, no file
NoFound == [none |-> TRUE, date |-> [none |-> TRUE, y |-> 0, m |-> 0, d |-> 0],
            dir |-> 0, file |-> <<>>]

----------------------------------------------------------------------------
(* Dataframes: a sequence of columns [name, vals] plus the row count *)

columns(cols) == [i \in 1..Len(cols) |-> cols[i].name]

HasColumn(cols, n) == \E i \in 1..Len(cols) : cols[i].name = n

Column(cols, n) == cols[CHOOSE i \in 1..Len(cols) : cols[i].name = n]

\* df.rename(columns={old: new}, inplace=True)
rename(cols, old, new) ==
    [i \in 1..Len(cols) |->
        IF cols[i].name = old THEN [cols[i] EXCEPT !.name = new] ELSE cols[i]]

\* df[n] = vals : replaces the column when it exists, appends it otherwise
assign(cols, n, vals) ==
    IF HasColumn(cols, n)
    THEN [i \in 1..Len(cols) |->
            IF cols[i].name = n THEN [cols[i] EXCEPT !.vals = vals] ELSE cols[i]]
    ELSE Append(cols, [name |-> n, vals |-> vals])

\* df.columns = df.columns.str.strip().str.replace('"', '').str.replace("'", "")
clean_column_names(cols) ==
    [i \in 1..Len(cols) |-> [cols[i] EXCEPT !.name = clean_name(cols[i].name)]]

\* df['Screen'].astype(str) + ':' + df['Object_Action'].astype(str)
concat_columns(a, b) == [r \in 1..Len(a) |-> a[r] \o <<":">> \o b[r]]

\* matches = [c for c in df.columns if c.lower() == col.lower()]
ci_matches(cols, col) ==
    LET Same(c) == lower(c) = lower(col)
    IN  SelectSeq(columns(cols), Same)

\* One pass of `for col in required_cols:` starting at index i.  screen_rule
\* is TRUE for load_operlog_data, whose loop has the extra Object_Action arm.
RECURSIVE check_required(_, _, _, _, _)
check_required(cols, req, i, missing, screen_rule) ==
    IF i > Len(req) THEN [cols |-> cols, missing |-> missing]
    ELSE
      LET col     == req[i]
          matches == ci_matches(cols, col)
      IN  IF HasColumn(cols, col)
          THEN check_required(cols, req, i + 1, missing, screen_rule)
          ELSE IF matches # <<>>
          THEN check_required(rename(cols, matches[1], col), req, i + 1, missing, screen_rule)
          ELSE IF screen_rule /\ col = cObject_Action
          THEN IF HasColumn(cols, cScreen) /\ HasColumn(cols, cObject_Action)
               THEN check_required(
                        assign(cols, cObject_Action,
                               concat_columns(Column(cols, cScreen).vals,
                                              Column(cols, cObject_Action).vals)),
                        req, i + 1, missing, screen_rule)
               ELSE IF HasColumn(cols, cScreen)
               THEN check_required(rename(cols, cScreen, cObject_Action),
                                   req, i + 1, missing, screen_rule)
               ELSE check_required(cols, req, i + 1, Append(missing, col), screen_rule)
          ELSE check_required(cols, req, i + 1, Append(missing, col), screen_rule)

\* mutant: a column satisfied by the case-insensitive rename is reported missing too
clean_dataframe_columns_overreport(cols, req) ==
    LET res == check_required(clean_column_names(cols), req, 1, <<>>, FALSE)
        Renamed(c) == ~HasColumn(clean_column_names(cols), c)
    IN  [res EXCEPT !.missing = SelectSeq(req, Renamed)]

\* report_utils.clean_dataframe_columns(df, required_cols)
clean_dataframe_columns(cols, req) ==
    check_required(clean_column_names(cols), req, 1, <<>>, FALSE)

\* the inline copy of the same loop in load_alarm_data
alarm_check_columns(cols, req) ==
    check_required(clean_column_names(cols), req, 1, <<>>, FALSE)

\* mutant: the loop without its Object_Action arm
operlog_check_columns_no_screen(cols, req) ==
    check_required(clean_column_names(cols), req, 1, <<>>, FALSE)

\* the loop of load_operlog_data, with the Screen / Object_Action arm
operlog_check_columns(cols, req) ==
    check_required(clean_column_names(cols), req, 1, <<>>, TRUE)

\* mutant: the selection follows the file's column order
available_cols_file_order(cols, req) ==
    LET Required(c) == c \in Range(req)
    IN  SelectSeq(columns(cols), Required)

\* available_cols = [col for col in required_cols if col in df.columns]
available_cols(cols, req) ==
    LET Present(c) == HasColumn(cols, c)
    IN  SelectSeq(req, Present)

\* df = df[available_cols].copy()
select_columns(cols, names) == [i \in 1..Len(names) |-> Column(cols, names[i])]

\* qf_cols = [col for col in df.columns if col == 'QF' or col.endswith('_QF')]
\* df = df.drop(columns=qf_cols)
drop_qf_columns(cols) ==
    LET NotQF(c) == ~(c.name = cQF \/ endswith(c.name, c_QF))
    IN  SelectSeq(cols, NotQF)

----------------------------------------------------------------------------
(* Cell values.  A cell is text (a sequence of characters); a missing value *)
(* (NaN / NaT) is the one-element sequence NaN.                             *)

NaN == <<"NaN">>
isna(v) == v = NaN

sNan == <<"n", "a", "n">>
sPlaceholder == <<"'", "-">>

\* astype(str): NaN becomes the text 'nan'
astype_str(v) == IF isna(v) THEN sNan ELSE v

\* s.replace(old, '') on a Series: replaces cells EQUAL to old
replace_cell(v, old, new) == IF v = old THEN new ELSE v

\* report_utils.clean_dataframe_data, one cell of an object column
clean_cell(v) ==
    replace_cell(replace_cell(remove_quotes(strip(astype_str(v))), sNan, <<>>),
                 sPlaceholder, <<>>)

\* the inline cleaning of load_alarm_data (no placeholder replacement)
alarm_clean_cell(v) ==
    replace_cell(remove_quotes(strip(astype_str(v))), sNan, <<>>)

IsCased(c) == IsUpperChar(c) \/ IsLowerChar(c)

\* str.title(): a letter is upper-cased when it follows a non-letter
title(s) ==
    [i \in 1..Len(s) |->
        IF i = 1 \/ ~IsCased(s[i - 1]) THEN UpperChar(s[i]) ELSE LowerChar(s[i])]

DigitVal(c) == IndexIn(c, Digits) - 1

AllDigits(s) == \A i \in 1..Len(s) : IsDigit(s[i])

RECURSIVE ToInt(_)
ToInt(s) == IF s = <<>> THEN 0
            ELSE 10 * ToInt(SubSeq(s, 1, Len(s) - 1)) + DigitVal(s[Len(s)])

IsLeap(y) == (y % 4 = 0 /\ y % 100 # 0) \/ y % 400 = 0

DaysInMonth(y, m) ==
    IF m = 2 THEN (IF IsLeap(y) THEN 29 ELSE 28)
    ELSE IF m \in {4, 6, 9, 11} THEN 30 ELSE 31

\* datetime(y, m, d) raises ValueError unless this holds
ValidDate(y, m, d) ==
    /\ 1 <= y /\ y <= 9999
    /\ 1 <= m /\ m <= 12
    /\ 1 <= d /\ d <= DaysInMonth(y, m)

\* positions of ch in s
Positions(s, ch) == {i \in 1..Len(s) : s[i] = ch}

TwoDigits(n) == <<Digits[((n \div 10) % 10) + 1], Digits[(n % 10) + 1]>>

\* datetime.strptime(s, '%m/%d/%Y'): month and day of one or two digits
\* (%d also takes a blank and a digit), a four-digit year, nothing else
strptime_mdY(s) ==
    LET sl == Positions(s, "/")
    IN  IF Cardinality(sl) # 2 THEN [ok |-> FALSE, y |-> 0, m |-> 0, d |-> 0]
        ELSE
          LET p1 == CHOOSE i \in sl : \A j \in sl : i <= j
              p2 == CHOOSE i \in sl : \A j \in sl : j <= i
              ms == SubSeq(s, 1, p1 - 1)
              ds0 == SubSeq(s, p1 + 1, p2 - 1)
              ds == IF Len(ds0) = 2 /\ ds0[1] = " " THEN <<ds0[2]>> ELSE ds0
              ys == SubSeq(s, p2 + 1, Len(s))
              shape == /\ Len(ms) \in {1, 2} /\ AllDigits(ms)
                       /\ Len(ds) \in {1, 2} /\ AllDigits(ds)
                       /\ Len(ys) = 4 /\ AllDigits(ys)
          IN  IF shape /\ ValidDate(ToInt(ys), ToInt(ms), ToInt(ds))
              THEN [ok |-> TRUE, y |-> ToInt(ys), m |-> ToInt(ms), d |-> ToInt(ds)]
              ELSE [ok |-> FALSE, y |-> 0, m |-> 0, d |-> 0]

\* convert_date_format: MM/DD/YYYY -> DD/MM/YY.  A blank or missing value is
\* returned as it is; otherwise date_str is rebound to str(date_str).strip()
\* before strptime, and that is what the except arm returns
convert_date_format(date_str) ==
    IF isna(date_str) \/ date_str = <<>> \/ strip(date_str) = <<>> THEN date_str
    ELSE LET dt == strptime_mdY(strip(date_str))
         IN  IF dt.ok
             THEN TwoDigits(dt.d) \o <<"/">> \o TwoDigits(dt.m) \o <<"/">> \o TwoDigits(dt.y % 100)
             ELSE strip(date_str)

RECURSIVE IntToText(_)
IntToText(n) == IF n < 10 THEN <<Digits[n + 1]>>
                ELSE IntToText(n \div 10) \o <<Digits[(n % 10) + 1]>>

\* .str.replace(',', '.')
comma_to_point(s) == [i \in 1..Len(s) |-> IF s[i] = "," THEN "." ELSE s[i]]

\* pd.to_numeric(text, errors='coerce').round(1) for plain decimal text
\* [sign] digits [. digits]; anything else is coerced to NaN.  The value
\* is rounded to tenths, a tie going to the even tenth.
to_numeric_round1(s) ==
    LET neg  == Len(s) > 0 /\ s[1] = "-"
        body == IF Len(s) > 0 /\ s[1] \in {"-", "+"} THEN Tail(s) ELSE s
        dots == Positions(body, ".")
        ip   == IF dots = {} THEN body
                ELSE SubSeq(body, 1, (CHOOSE i \in dots : TRUE) - 1)
        fp   == IF dots = {} THEN <<>>
                ELSE SubSeq(body, (CHOOSE i \in dots : TRUE) + 1, Len(body))
        ok   == /\ Cardinality(dots) <= 1
                /\ AllDigits(ip) /\ AllDigits(fp)
                /\ Len(ip) + Len(fp) > 0
        first == IF Len(fp) > 0 THEN DigitVal(fp[1]) ELSE 0
        rest  == IF Len(fp) > 1 THEN SubSeq(fp, 2, Len(fp)) ELSE <<>>
        half  == IF rest = <<>> THEN FALSE
                 ELSE /\ DigitVal(rest[1]) = 5
                      /\ \A i \in 2..Len(rest) : rest[i] = "0"
        above == rest # <<>> /\ ~half /\ DigitVal(rest[1]) >= 5
        t0    == ToInt(ip) * 10 + first
        t     == IF above \/ (half /\ t0 % 2 = 1) THEN t0 + 1 ELSE t0
    IN  IF ~ok THEN NaN
        ELSE (IF neg /\ t > 0 THEN <<"-">> ELSE <<>>)
             \o IntToText(t \div 10) \o <<".">> \o <<Digits[(t % 10) + 1]>>

\* 'HH:MM:SS' -> seconds of the day, -1 when it does not parse
time_seconds(s) ==
    LET c == Positions(s, ":")
    IN  IF Len(s) = 8 /\ c = {3, 6}
           /\ AllDigits(SubSeq(s, 1, 2)) /\ AllDigits(SubSeq(s, 4, 5))
           /\ AllDigits(SubSeq(s, 7, 8))
           /\ ToInt(SubSeq(s, 1, 2)) < 24 /\ ToInt(SubSeq(s, 4, 5)) < 60
           /\ ToInt(SubSeq(s, 7, 8)) < 60
        THEN ToInt(SubSeq(s, 1, 2)) * 3600 + ToInt(SubSeq(s, 4, 5)) * 60
             + ToInt(SubSeq(s, 7, 8))
        ELSE -1

\* pd.to_datetime(Date + ' ' + Time, errors='coerce') as a sortable number
\* of seconds counted from 1970, -1 for NaT
to_datetime(date, time) ==
    LET dt == strptime_mdY(date)
        ts == time_seconds(time)
    IN  IF isna(date) \/ isna(time) \/ ~dt.ok \/ ts < 0 THEN -1
        ELSE ((((dt.y - 1970) * 12 + (dt.m - 1)) * 31 + (dt.d - 1)) * 86400) + ts

\* the DateTime cell stored in the frame
datetime_cell(k) == IF k < 0 THEN NaN ELSE IntToText(k)

\* df.sort_values(column) with its default kind='quicksort': ascending, the
\* NaT rows last in their original relative order (nargsort appends them);
\* the order among rows of equal timestamp is whatever the unstable sort of
\* the build leaves.  Row a may stand before row b:
InOrder(keys, a, b) ==
    IF keys[a] < 0 THEN keys[b] < 0 /\ a < b
    ELSE keys[b] < 0 \/ keys[a] <= keys[b]

\* the row permutations sort_values may return
sort_orders(keys) ==
    {p \in [1..Len(keys) -> 1..Len(keys)] :
        \A i, j \in 1..Len(keys) :
            i < j => (p[i] # p[j] /\ InOrder(keys, p[i], p[j]))}

\* pd.to_datetime(df['Date'] + ' ' + df['Time'], errors='coerce') per row;
\* no keys when one of the two columns is absent
datetime_keys(cols, nrows) ==
    IF HasColumn(cols, cDate) /\ HasColumn(cols, cTime)
    THEN [r \in 1..nrows |->
            to_datetime(Column(cols, cDate).vals[r], Column(cols, cTime).vals[r])]
    ELSE <<>>

\* apply f to every cell of column n, when the column exists
MapColumn(cols, n, F(_)) ==
    [i \in 1..Len(cols) |->
        IF cols[i].name = n
        THEN [cols[i] EXCEPT !.vals = [r \in 1..Len(cols[i].vals) |-> F(cols[i].vals[r])]]
        ELSE cols[i]]

MapAll(cols, F(_)) ==
    [i \in 1..Len(cols) |->
        [cols[i] EXCEPT !.vals = [r \in 1..Len(cols[i].vals) |-> F(cols[i].vals[r])]]]

\* reorder the rows of every column
take_rows(cols, order) ==
    [i \in 1..Len(cols) |->
        [cols[i] EXCEPT !.vals = [p \in 1..Len(order) |-> cols[i].vals[order[p]]]]]

\* report_utils.clean_dataframe_data(df)
clean_dataframe_data(cols) == MapAll(cols, clean_cell)

temp_cols == <<cTEMP_AIR_IN, cTEMP_PRODUCT_1, cTEMP_PRODUCT_2, cTEMP_PRODUCT_3>>

temp_cell(v) == to_numeric_round1(comma_to_point(astype_str(v)))

RECURSIVE convert_temps(_, _)
convert_temps(cols, i) ==
    IF i > Len(temp_cols) THEN cols
    ELSE convert_temps(MapColumn(cols, temp_cols[i], temp_cell), i + 1)

\* df['DateTime'] = pd.to_datetime(df['Date'] + ' ' + df['Time'], errors='coerce')
\* df = df.sort_values('DateTime')
add_datetime_and_sort(cols, nrows, order) ==
    IF HasColumn(cols, cDate) /\ HasColumn(cols, cTime)
    THEN LET keys == datetime_keys(cols, nrows)
             withdt == assign(cols, cDateTime, [r \in 1..nrows |-> datetime_cell(keys[r])])
         IN  take_rows(withdt, order)
    ELSE cols

----------------------------------------------------------------------------
(* The three loaders.  Each returns (df, missing_cols); df is None when    *)
(* anything inside the try block raised.                                   *)

NoDf == [none |-> TRUE, cols |-> <<>>, nrows |-> 0]

Loaded(cols, nrows, missing) ==
    [df |-> [none |-> FALSE, cols |-> cols, nrows |-> nrows], missing |-> missing]

LoadFailed == [df |-> NoDf, missing |-> <<>>]

\* load_alarm_data, first half: read_csv, column names, required columns,
\* df = df[available_cols].copy()
alarm_reconcile(rawt) ==
    IF ~rawt.ok THEN LoadFailed
    ELSE
      LET req  == required_cols("alarm")
          chk  == alarm_check_columns(rawt.cols, req)
      IN  Loaded(select_columns(chk.cols, available_cols(chk.cols, req)),
                 rawt.nrows, chk.missing)

\* load_alarm_data, second half: cell cleaning, Alarm Status title case,
\* date format
alarm_normalize(cols) ==
    MapColumn(MapColumn(MapAll(cols, alarm_clean_cell), cAlarmStatus, title),
              cDate, convert_date_format)

\* load_operlog_data, first half
operlog_reconcile(rawt) ==
    IF ~rawt.ok THEN LoadFailed
    ELSE
      LET req  == required_cols("operlog")
          chk  == operlog_check_columns(rawt.cols, req)
      IN  Loaded(select_columns(chk.cols, available_cols(chk.cols, req)),
                 rawt.nrows, chk.missing)

\* load_operlog_data, second half: cell cleaning and date format
operlog_normalize(cols) ==
    MapColumn(MapAll(cols, clean_cell), cDate, convert_date_format)

\* load_batch_data, first half: QF columns dropped, then as above
batch_reconcile(rawt) ==
    IF ~rawt.ok THEN LoadFailed
    ELSE
      LET req  == required_cols("batch")
          chk  == clean_dataframe_columns(drop_qf_columns(rawt.cols), req)
      IN  Loaded(select_columns(chk.cols, available_cols(chk.cols, req)),
                 rawt.nrows, chk.missing)

\* load_batch_data, second half: cell cleaning, temperatures, DateTime sort,
\* date format
batch_normalize(cols, nrows, order) ==
    MapColumn(add_datetime_and_sort(convert_temps(clean_dataframe_data(cols), 1), nrows, order),
              cDate, convert_date_format)

----------------------------------------------------------------------------
(* Document assembly: create_pdf_report of the three generators.  The      *)
(* story is the list of flowables; every element is [kind, text, cols].    *)

Elem(kind, text, cols) == [kind |-> kind, text |-> text, cols |-> cols]

\* calculate_period(df) of generate_report_batch
calculate_period(d) ==
    IF d.nrows = 0 THEN <<"No data">>
    ELSE
      LET valid == IF HasColumn(d.cols, cDateTime)
                   THEN {r \in 1..d.nrows : ~isna(Column(d.cols, cDateTime).vals[r])}
                   ELSE {}
          dtv(r) == ToInt(Column(d.cols, cDateTime).vals[r])
      IN  IF valid # {}
          THEN LET lo == CHOOSE r \in valid : \A q \in valid : dtv(r) <= dtv(q)
                   hi == CHOOSE r \in valid : \A q \in valid : dtv(q) <= dtv(r)
               IN  <<"Starting time: ">> \o Column(d.cols, cDateTime).vals[lo]
                   \o <<" - Ending time: ">> \o Column(d.cols, cDateTime).vals[hi]
          ELSE IF HasColumn(d.cols, cDate)
          THEN LET fd == Column(d.cols, cDate).vals[1]
                   ld == Column(d.cols, cDate).vals[d.nrows]
               IN  IF HasColumn(d.cols, cTime)
                   THEN <<"Starting time: ">> \o fd \o <<" ">> \o Column(d.cols, cTime).vals[1]
                        \o <<" - Ending time: ">> \o ld \o <<" ">>
                        \o Column(d.cols, cTime).vals[d.nrows]
                   ELSE <<"Starting time: ">> \o fd \o <<" - Ending time: ">> \o ld
          ELSE <<"Period not determinable">>

\* mutant: the note is written whether or not a column is missing
missing_note_unconditional(missing) ==
    <<Elem("missing_note", <<>>, missing), Elem("spacer", <<>>, <<>>)>>

\* the note block: `if missing_cols:` ... story.append(note); story.append(Spacer(1, 6))
missing_note(missing) ==
    IF missing # <<>> THEN <<Elem("missing_note", <<>>, missing), Elem("spacer", <<>>, <<>>)>>
    ELSE <<>>

\* mutant: an empty frame is refused instead of being reported
table_block_refuse_empty(d, headers) ==
    IF d.nrows = 0 THEN <<>> ELSE <<Elem("table", <<>>, headers)>>

\* the table block: "Nessun dato disponibile" for an empty frame, else the table
table_block(d, headers) ==
    IF d.nrows = 0 THEN <<Elem("no_data", <<>>, <<>>)>>
    ELSE <<Elem("table", <<>>, headers)>>

\* col_widths = [page_width/len(headers)] * len(headers) divides by zero when
\* a non-empty frame has no column left and is not inside any try block
widths_raise(d, headers) == d.nrows > 0 /\ Len(headers) = 0

\* generate_report_alarm.create_pdf_report / generate_report_operlog.create_pdf_report
create_pdf_story(d, source_filename, missing) ==
    <<Elem("title", stem(source_filename), <<>>), Elem("spacer", <<>>, <<>>)>>
    \o missing_note(missing)
    \o table_block(d, columns(d.cols))

\* display_cols = [col for col in df.columns if col != 'DateTime']
display_cols(d) ==
    LET NotDT(c) == c # cDateTime
    IN  SelectSeq(columns(d.cols), NotDT)

\* generate_report_batch.create_pdf_report
create_pdf_story_batch(d, source_filename, missing) ==
    <<Elem("title", stem(source_filename), <<>>),
      Elem("subtitle", calculate_period(d), <<>>)>>
    \o missing_note(missing)
    \o table_block(d, display_cols(d))

\* doc.build(story, onFirstPage=add_page_number, onLaterPages=add_page_number):
\* reportlab calls the page hook as hook(canvas, doc).  The alarm and operlog
\* scripts define add_page_number(canvas, doc); generate_report_batch imports
\* report_utils.add_page_number(canvas), so its build always raises TypeError.
\* rendered is whether reportlab itself succeeds.
doc_build(g, rendered) == IF g = "batch" THEN FALSE ELSE rendered

----------------------------------------------------------------------------
(* Inputs of a generator run *)

Gens == {"alarm", "batch", "operlog"}

fAlarm == <<"A", "L", "A", "R", "M", ".", "v", "2", ".", "c", "s", "v">>
fBatch == <<"B", "A", "T", "C", "H", "9", "9", ".", "c", "s", "v">>
fOperlog == <<"o", "p", "e", "r", "l", "o", "g", "_", "2", "4", ".", "c", "s", "v">>

CsvNames(g) ==
    CASE g = "alarm"   -> {fAlarm}
      [] g = "batch"   -> {fBatch}
      [] g = "operlog" -> {fOperlog}

\* Header spellings an export file may carry for each generator.  They are
\* pairwise distinct after clean_name, as the labels of a parsed frame are.
Pool(g) ==
    CASE g = "alarm"   -> <<cDate, cTime, cAlarmMessage, cAlarmStatus,
                            rQDate, rQTime, rQAlarmMessage, rQAlarmStatus, rDATE, rExtra>>
      [] g = "operlog" -> <<cDate, cTime, cUser, cObject_Action, cTrigger,
                            cPreviousValue, cChangedValue,
                            cScreen, robject_action, rQDate>>
      [] g = "batch"   -> <<cDate, cTime, cUSER, cTEMP_AIR_IN, cTEMP_PRODUCT_1,
                            cTEMP_PRODUCT_2, cTEMP_PRODUCT_3,
                            rdate, rQUser, rTempQF>>

\* the cell of pool column k in data row r
RawCell(k, r) == <<LowerChars[k], Digits[r + 1]>>

\* file column order: the pool rotated by rot, reversed when rev
FileOrder(n, rot, rev) ==
    [i \in 1..n |->
        LET j == IF rev THEN n + 1 - i ELSE i
        IN  ((j - 1 + rot) % n) + 1]

RawTable(g, present, rot, rev, nrows) ==
    LET n     == Len(Pool(g))
        order == FileOrder(n, rot, rev)
        In(k) == k \in present
        ks    == SelectSeq(order, In)
    IN  [ok    |-> TRUE,
         cols  |-> [i \in 1..Len(ks) |->
                      [name |-> Pool(g)[ks[i]],
                       vals |-> [r \in 1..nrows |-> RawCell(ks[i], r)]]],
         nrows |-> nrows]

\* pd.read_csv raised (empty file, undecodable bytes, ...)
ParseError == [ok |-> FALSE, cols |-> <<>>, nrows |-> 0]

RawTables(g) ==
    {ParseError} \cup
    {RawTable(g, present, rot, rev, nrows) :
        present \in SUBSET (1..Len(Pool(g))), rot \in 0..MaxRot,
        rev \in BOOLEAN, nrows \in 0..MaxRows}


----------------------------------------------------------------------------
(* A run of one generator script: main() *)

Init ==
    /\ printer = NoPrinter
    /\ log = <<>>
    /\ pc = "main"
    /\ gen \in Gens
    /\ csv_path \in CsvNames(gen)
    /\ raw \in RawTables(gen)
    /\ df = NoDf
    /\ missing_cols = <<>>
    /\ story = <<>>
    /\ exit_code = -1
    /\ output = FALSE
    /\ error = ""
    /\ entries = <<>>
    /\ found = NoFound

\* load_alarm_data up to the column selection; a raised exception returns
\* (None, []) at once
ReconcileAlarm ==
    /\ pc = "main" /\ gen = "alarm"
    /\ LET res == alarm_reconcile(raw)
       IN  /\ df' = res.df
           /\ missing_cols' = res.missing
           /\ pc' = IF res.df.none THEN "loaded" ELSE "reconciled"
    /\ UNCHANGED <<gen, csv_path, raw, story, exit_code, output, error, entries, found, printer, log>>

\* the rest of load_alarm_data, up to `return df, missing_cols`
NormalizeAlarm ==
    /\ pc = "reconciled" /\ gen = "alarm"
    /\ df' = [df EXCEPT !.cols = alarm_normalize(df.cols)]
    /\ pc' = "loaded"
    /\ UNCHANGED <<gen, csv_path, raw, missing_cols, story, exit_code, output, error, entries, found, printer, log>>

\* load_batch_data up to the column selection; a raised exception returns
\* (None, []) at once
ReconcileBatch ==
    /\ pc = "main" /\ gen = "batch"
    /\ LET res == batch_reconcile(raw)
       IN  /\ df' = res.df
           /\ missing_cols' = res.missing
           /\ pc' = IF res.df.none THEN "loaded" ELSE "reconciled"
    /\ UNCHANGED <<gen, csv_path, raw, story, exit_code, output, error, entries, found, printer, log>>

\* the rest of load_batch_data, up to `return df, missing_cols`
NormalizeBatch ==
    /\ pc = "reconciled" /\ gen = "batch"
    /\ \E order \in sort_orders(datetime_keys(clean_dataframe_data(df.cols), df.nrows)) :
         df' = [df EXCEPT !.cols = batch_normalize(df.cols, df.nrows, order)]
    /\ pc' = "loaded"
    /\ UNCHANGED <<gen, csv_path, raw, missing_cols, story, exit_code, output, error, entries, found, printer, log>>

\* load_operlog_data up to the column selection; a raised exception returns
\* (None, []) at once
ReconcileOperlog ==
    /\ pc = "main" /\ gen = "operlog"
    /\ LET res == operlog_reconcile(raw)
       IN  /\ df' = res.df
           /\ missing_cols' = res.missing
           /\ pc' = IF res.df.none THEN "loaded" ELSE "reconciled"
    /\ UNCHANGED <<gen, csv_path, raw, story, exit_code, output, error, entries, found, printer, log>>

\* the rest of load_operlog_data, up to `return df, missing_cols`
NormalizeOperlog ==
    /\ pc = "reconciled" /\ gen = "operlog"
    /\ df' = [df EXCEPT !.cols = operlog_normalize(df.cols)]
    /\ pc' = "loaded"
    /\ UNCHANGED <<gen, csv_path, raw, missing_cols, story, exit_code, output, error, entries, found, printer, log>>

\* if df is None: print("ERRORE: Impossibile caricare i dati"); sys.exit(1)
MainLoadFailed ==
    /\ pc = "loaded" /\ df.none
    /\ exit_code' = 1
    /\ pc' = "done"
    /\ UNCHANGED <<gen, csv_path, raw, df, missing_cols, story, output, error, entries, found, printer, log>>

\* success = create_pdf_report(...); sys.exit(0 if success else 1)
\* An exception escaping create_pdf_report ends the process with status 1.
MainCreatePdf ==
    /\ pc = "loaded" /\ ~df.none
    /\ LET headers == IF gen = "batch" THEN display_cols(df) ELSE columns(df.cols)
           built   == IF gen = "batch"
                      THEN create_pdf_story_batch(df, csv_path, missing_cols)
                      ELSE create_pdf_story(df, csv_path, missing_cols)
       IN  IF widths_raise(df, headers)
           THEN /\ story' = SubSeq(built, 1, Len(built) - 1)
                /\ output' = FALSE
                /\ exit_code' = 1
           ELSE \E rendered \in BOOLEAN :
                /\ story' = built
                /\ output' = doc_build(gen, rendered)
                /\ exit_code' = IF doc_build(gen, rendered) THEN 0 ELSE 1
    /\ pc' = "done"
    /\ UNCHANGED <<gen, csv_path, raw, df, missing_cols, error, entries, found, printer, log>>

Next ==
    \/ ReconcileAlarm
    \/ NormalizeAlarm
    \/ ReconcileBatch
    \/ NormalizeBatch
    \/ ReconcileOperlog
    \/ NormalizeOperlog
    \/ MainLoadFailed
    \/ MainCreatePdf

Spec == Init /\ [][Next]_vars

----------------------------------------------------------------------------
(* Properties of a generator run *)

\* the cleaned header of the parsed file
RawNames == {clean_name(raw.cols[i].name) : i \in 1..Len(raw.cols)}

RawVals(n) ==
    raw.cols[CHOOSE i \in 1..Len(raw.cols) : clean_name(raw.cols[i].name) = n].vals

RawHasCI(n) == \E m \in RawNames : lower(m) = lower(n)

Kinds == [i \in 1..Len(story) |-> story[i].kind]

\* C1: in the operlog loader, a file with a "Screen" column and no
\* "Object_Action" column in any letter case is reconciled to a table whose
\* "Object_Action" column holds the Screen values, that has no "Screen"
\* column, and "Object_Action" is not reported missing.
C1_ScreenRenamed ==
    (/\ gen = "operlog" /\ pc = "reconciled"
     /\ cScreen \in RawNames /\ ~RawHasCI(cObject_Action))
    => /\ HasColumn(df.cols, cObject_Action)
       /\ Column(df.cols, cObject_Action).vals = RawVals(cScreen)
       /\ ~HasColumn(df.cols, cScreen)
       /\ cObject_Action \notin Range(missing_cols)

C1_Witness ==
    /\ gen = "operlog" /\ pc = "reconciled" /\ df.nrows > 0
    /\ cScreen \in RawNames /\ ~RawHasCI(cObject_Action)
    /\ HasColumn(df.cols, cObject_Action)

\* C2: in the operlog loader, a file with both a "Screen" and an
\* "Object_Action" column is reconciled to an "Object_Action" column whose
\* value in every row is "{Screen}:{Object_Action}".
C2_ScreenConcatenated ==
    (/\ gen = "operlog" /\ pc = "reconciled"
     /\ cScreen \in RawNames /\ cObject_Action \in RawNames)
    => /\ HasColumn(df.cols, cObject_Action)
       /\ \A r \in 1..df.nrows :
            Column(df.cols, cObject_Action).vals[r]
                = RawVals(cScreen)[r] \o <<":">> \o RawVals(cObject_Action)[r]

\* C3: after reconciliation, in every generator, every column of the table
\* is a required name, no required name is both present and reported
\* missing, and every required name is present or reported missing.
C3_PresentAndMissingPartitionSchema ==
    (pc = "reconciled")
    => LET present == Range(columns(df.cols))
           missing == Range(missing_cols)
           schema  == Range(required_cols(gen))
       IN  /\ present \subseteq schema
           /\ present \cap missing = {}
           /\ present \cup missing = schema

C3_Witness ==
    /\ pc = "reconciled"
    /\ missing_cols # <<>> /\ df.cols # <<>>
    /\ \E m \in RawNames : m \notin Range(required_cols(gen)) /\ RawHasCI(cDate)

\* C4: a file that has every required column, in whatever column order and
\* with or without extra columns, is reconciled with nothing reported
\* missing and with its columns in exactly the order of required_cols.
C4_FullSchemaKeepsSchemaOrder ==
    (/\ pc = "reconciled"
     /\ \A c \in Range(required_cols(gen)) : c \in RawNames)
    => /\ missing_cols = <<>>
       /\ columns(df.cols) = required_cols(gen)

C4_Witness ==
    /\ pc = "reconciled" /\ gen = "batch"
    /\ \A c \in Range(required_cols(gen)) : c \in RawNames
    /\ Len(raw.cols) > Len(required_cols(gen))
    /\ clean_name(raw.cols[1].name) # cDate
    /\ columns(df.cols) = required_cols(gen)

\* C6 as stated: when the parse yields zero data rows the run is fatal, no
\* document is produced and the run ends with an error status.
C6_ZeroRowsIsFatal ==
    (pc = "done" /\ raw.ok /\ raw.nrows = 0) => (~output /\ exit_code = 1)

\* C6 amended: in the alarm and operlog generators a parse that yields a
\* header and zero data rows is not fatal: the document is assembled with
\* the "Nessun dato disponibile" notice in place of the table, and the run
\* ends with status 0 exactly when the document was written.  Only a parse
\* that raises ends the run with status 1 before any document is assembled.
C6_ZeroRowsGiveNoDataNotice ==
    /\ (pc = "done" /\ gen \in {"alarm", "operlog"} /\ raw.ok /\ raw.nrows = 0)
        => /\ Len(story) > 0
           /\ story[1].kind = "title"
           /\ story[Len(story)].kind = "no_data"
           /\ \A i \in 1..Len(story) : story[i].kind # "table"
           /\ (exit_code = 0) <=> output
    /\ (pc = "done" /\ ~raw.ok)
        => (story = <<>> /\ ~output /\ exit_code = 1)

C6_Witness ==
    /\ pc = "done" /\ gen = "alarm" /\ raw.ok /\ raw.nrows = 0
    /\ output /\ exit_code = 0
    /\ story[Len(story)].kind = "no_data"

fAlarmStem == <<"A", "L", "A", "R", "M", ".", "v", "2">>

\* the header is exactly the four alarm names, mixed case, in quotes
QuotedAlarmHeader ==
    /\ gen = "alarm" /\ raw.ok
    /\ {raw.cols[i].name : i \in 1..Len(raw.cols)}
         = {rQDate, rQTime, rQAlarmMessage, rQAlarmStatus}

Subtitles == {i \in 1..Len(story) : story[i].kind = "subtitle"}

\* the rows of the frame whose combined timestamp was parsed
Stamped == IF HasColumn(df.cols, cDateTime)
           THEN {r \in 1..df.nrows : ~isna(Column(df.cols, cDateTime).vals[r])}
           ELSE {}

StampOf(r) == Column(df.cols, cDateTime).vals[r]

\* C23: in Telemetry mode the document has a subtitle exactly when a date
\* column survived reconciliation, and a subtitle computed from parsed
\* timestamps states their minimum and their maximum.
C23_SubtitleOnlyWithDateColumn ==
    (pc = "done" /\ gen = "batch" /\ story # <<>>)
    => /\ (Subtitles # {}) <=> HasColumn(df.cols, cDate)
       /\ (Subtitles # {} /\ Stamped # {})
            => \E lo \in Stamped, hi \in Stamped :
                 /\ \A q \in Stamped : /\ ToInt(StampOf(lo)) <= ToInt(StampOf(q))
                                        /\ ToInt(StampOf(q)) <= ToInt(StampOf(hi))
                 /\ \A i \in Subtitles :
                      story[i].text = <<"Starting time: ">> \o StampOf(lo)
                                      \o <<" - Ending time: ">> \o StampOf(hi)

\* positions of the story's elements of the given kinds
ElemsOf(kinds) == {i \in 1..Len(story) : story[i].kind \in kinds}

\* the story got as far as its table block
TableReached == ElemsOf({"table", "no_data"}) # {}

\* the columns of the generator's schema that the loaded frame lacks
Lacking == {c \in Range(required_cols(gen)) : ~HasColumn(df.cols, c)}

\* C24: the document carries a missing-columns note exactly when some
\* required column is missing; the note lists exactly the missing names and
\* stands after the title block and before the table body.
C24_MissingColumnsNote ==
    (pc = "done" /\ TableReached)
    => /\ (ElemsOf({"missing_note"}) # {}) <=> (missing_cols # <<>>)
       /\ Cardinality(ElemsOf({"missing_note"})) <= 1
       /\ \A i \in ElemsOf({"missing_note"}) :
            /\ story[i].cols = missing_cols
            /\ Range(story[i].cols) = Lacking
            /\ \A j \in ElemsOf({"title", "subtitle"}) : j < i
            /\ \A j \in ElemsOf({"table", "no_data"}) : i < j

C24_Witness ==
    /\ pc = "done" /\ gen = "alarm" /\ output
    /\ missing_cols = <<cTime, cAlarmStatus>>
    /\ Kinds = <<"title", "spacer", "missing_note", "spacer", "table">>
    /\ story[3].cols = <<cTime, cAlarmStatus>>

----------------------------------------------------------------------------
(* generate_report.py: mode detection *)

sALARM   == <<"A", "L", "A", "R", "M">>
sOPERLOG == <<"O", "P", "E", "R", "L", "O", "G">>

\* mutant: the stem is compared as written, without upper()
detect_mode_case_sensitive(csv) ==
    IF startswith(stem(csv), sALARM) THEN "alarm"
    ELSE IF startswith(stem(csv), sOPERLOG) THEN "operlog"
    ELSE "other"

\* generate_report._detect_mode(csv)
detect_mode(csv) ==
    IF startswith(upper(stem(csv)), sALARM) THEN "alarm"
    ELSE IF startswith(upper(stem(csv)), sOPERLOG) THEN "operlog"
    ELSE "other"

MaskBits == 5   \* letter-case patterns: the first MaskBits letters vary freely

RECURSIVE Pow2(_)
Pow2(n) == IF n = 0 THEN 1 ELSE 2 * Pow2(n - 1)

\* word with letter i in upper case when bit i of mask is set (i <= MaskBits),
\* the remaining letters all upper or all lower
WithCase(word, mask, rest_upper) ==
    [i \in 1..Len(word) |->
        IF i <= MaskBits
        THEN (IF (mask \div Pow2(i - 1)) % 2 = 1 THEN UpperChar(word[i]) ELSE LowerChar(word[i]))
        ELSE (IF rest_upper THEN UpperChar(word[i]) ELSE LowerChar(word[i]))]

NameBases == {<<"a", "l", "a", "r", "m">>, <<"o", "p", "e", "r", "l", "o", "g">>, <<"b", "a", "t", "c", "h">>, <<"a", "l", "a", "r">>, <<"x", "a", "l", "a", "r", "m">>, <<"o", "p", "e", "r", "l", "o">>}

NameTails == {<<".", "c", "s", "v">>, <<"_", "X", ".", "c", "s", "v">>, <<".", "m", ".", "c", "s", "v">>}

\* file names offered to the mode resolver
ModeNames ==
    {WithCase(b, mask, ru) \o tl :
        b \in NameBases, mask \in 0..(Pow2(MaskBits) - 1), ru \in BOOLEAN, tl \in NameTails}

InitMode ==
    /\ printer = NoPrinter
    /\ log = <<>>
    /\ pc = "detect"
    /\ csv_path \in ModeNames
    /\ gen = "none"
    /\ raw = ParseError
    /\ df = NoDf
    /\ missing_cols = <<>>
    /\ story = <<>>
    /\ exit_code = -1
    /\ output = FALSE
    /\ error = ""
    /\ entries = <<>>
    /\ found = NoFound

\* mode = _detect_mode(csv)
DetectMode ==
    /\ pc = "detect"
    /\ gen' = detect_mode(csv_path)
    /\ pc' = "detected"
    /\ UNCHANGED <<csv_path, raw, df, missing_cols, story, exit_code, output, error, entries, found, printer, log>>

NextMode == DetectMode

SpecMode == InitMode /\ [][NextMode]_vars

\* the first n characters of the name, lower-cased letter by letter
PrefixLower(name, n) ==
    [i \in 1..(IF Len(name) < n THEN Len(name) ELSE n) |-> LowerChar(name[i])]

salarm   == <<"a", "l", "a", "r", "m">>
soperlog == <<"o", "p", "e", "r", "l", "o", "g">>

\* C8: every file name resolves to a mode: Alarm when its first five
\* characters spell "alarm" in any letter case, OperationLog when its first
\* seven spell "operlog" in any letter case, Telemetry otherwise.
C8_ModeIsTotalPrefixFunction ==
    (pc = "detected")
    => /\ gen \in {"alarm", "operlog", "other"}
       /\ (gen = "alarm")   <=> (PrefixLower(csv_path, 5) = salarm)
       /\ (gen = "operlog") <=> (PrefixLower(csv_path, 7) = soperlog)

C8_Witness ==
    /\ pc = "detected" /\ gen = "operlog"
    /\ csv_path[1] = "o" /\ csv_path[2] = "P" /\ csv_path[7] = "G"

----------------------------------------------------------------------------
(* generate_report.py: main() *)

rUnnamed == <<"U", "n", "n", "a", "m", "e", "d", ":", " ", "4">>
rtime    == <<"t", "i", "m", "e">>
sUnnamed == <<"U", "n", "n", "a", "m", "e", "d">>

\* MODE_COLS
MODE_COLS(mode) ==
    CASE mode = "alarm"   -> <<cDate, cTime, cAlarmMessage, cAlarmStatus>>
      [] mode = "operlog" -> <<cDate, cTime, cUser, cObject_Action, cTrigger,
                               cPreviousValue, cChangedValue>>
      [] mode = "other"   -> <<cDate, cTime, cUSER, cTEMP_AIR_IN, cTEMP_PRODUCT_1,
                               cTEMP_PRODUCT_2, cTEMP_PRODUCT_3>>

\* .loc[:, lambda d: ~d.columns.str.match(r"^Unnamed")]
drop_unnamed(cols) ==
    LET Named(c) == ~startswith(c.name, sUnnamed)
    IN  SelectSeq(cols, Named)

\* cmap = {c.lower(): c for c in df.columns}: the last column wins
cmap_has(cols, key) == \E i \in 1..Len(cols) : lower(cols[i].name) = key

cmap_get(cols, key) ==
    LET hits == {i \in 1..Len(cols) : lower(cols[i].name) = key}
    IN  cols[CHOOSE i \in hits : \A j \in hits : j <= i].name

\* cols = [cmap[w.lower()] for w in MODE_COLS[mode] if w.lower() in cmap]
mode_cols_found(cols, mode) ==
    LET Found(w) == cmap_has(cols, lower(w))
        ws == SelectSeq(MODE_COLS(mode), Found)
    IN  [i \in 1..Len(ws) |-> cmap_get(cols, lower(ws[i]))]

report_temp_cell(v) == to_numeric_round1(astype_str(v))

RECURSIVE report_temps(_, _)
report_temps(cols, i) ==
    IF i > Len(temp_cols) THEN cols
    ELSE report_temps(
            IF cmap_has(cols, lower(temp_cols[i]))
            THEN MapColumn(cols, cmap_get(cols, lower(temp_cols[i])), report_temp_cell)
            ELSE cols,
            i + 1)

\* if {"Date", "Time"}.issubset(df.columns): sort by the combined timestamp
report_sort(cols, nrows, order) ==
    IF HasColumn(cols, cDate) /\ HasColumn(cols, cTime)
    THEN take_rows(cols, order)
    ELSE cols

\* generate_report._load_df(csv, mode): raises ValueError when _find_header
\* finds no header line or when a column of MODE_COLS[mode] is absent
load_df(rawt, mode, order) ==
    IF ~rawt.ok THEN [raised |-> "header_not_found", df |-> NoDf, missing |-> <<>>]
    ELSE
      LET named == drop_unnamed(rawt.cols)
          cols  == mode_cols_found(named, mode)
          sel   == select_columns(named, cols)
          tmp   == IF mode = "other" THEN report_temps(sel, 1) ELSE sel
          Absent(w) == ~cmap_has(named, lower(w))
      IN  IF Len(cols) # Len(MODE_COLS(mode))
          THEN [raised |-> "missing_columns", df |-> NoDf,
                missing |-> SelectSeq(MODE_COLS(mode), Absent)]
          ELSE [raised  |-> "",
                df      |-> [none |-> FALSE, cols |-> report_sort(tmp, rawt.nrows, order),
                             nrows |-> rawt.nrows],
                missing |-> <<>>]

cBATCH_NAME == <<"B", "A", "T", "C", "H", "_", "N", "A", "M", "E">>

\* generate_report._title_sub(df, csv, mode): (title, subtitle); the subtitle
\* is the empty text when there is none
title_sub(d, csv, mode) ==
    IF mode \in {"alarm", "operlog"} THEN [title |-> stem(csv), sub |-> <<>>]
    ELSE [title |-> IF HasColumn(d.cols, cBATCH_NAME) /\ d.nrows > 0
                    THEN Column(d.cols, cBATCH_NAME).vals[1]
                    ELSE stem(csv),
          sub   |-> IF HasColumn(d.cols, cDate)
                    THEN <<"Starting Date: ">> \o <<" - Ending Date: ">>
                    ELSE <<>>]

\* generate_report._build_pdf: elems = [title, subtitle if any, Spacer, table]
build_pdf_story(d, csv, mode) ==
    LET ts == title_sub(d, csv, mode)
    IN  <<Elem("title", ts.title, <<>>)>>
        \o (IF ts.sub # <<>> THEN <<Elem("subtitle", ts.sub, <<>>)>> ELSE <<>>)
        \o <<Elem("spacer", <<>>, <<>>), Elem("table", <<>>, columns(d.cols))>>

\* _find_header only accepts a header line that starts with "Date\t", so
\* the first column of a parsed file is always Date; the others vary
ReportPool(mode) ==
    CASE mode = "alarm"   -> <<cTime, rtime, cAlarmMessage, cAlarmStatus, rUnnamed>>
      [] mode = "operlog" -> <<cTime, cUser, cObject_Action, cTrigger,
                               cPreviousValue, cChangedValue, cScreen>>
      [] mode = "other"   -> <<cTime, cUSER, cTEMP_AIR_IN, cTEMP_PRODUCT_1,
                               cTEMP_PRODUCT_2, cTEMP_PRODUCT_3, rUnnamed,
                               cBATCH_NAME>>

ReportTable(mode, present, rev, nrows) ==
    LET n     == Len(ReportPool(mode))
        order == FileOrder(n, 0, rev)
        In(k) == k \in present
        ks    == SelectSeq(order, In)
    IN  [ok    |-> TRUE,
         cols  |-> <<[name |-> cDate, vals |-> [r \in 1..nrows |-> RawCell(26, r)]]>>
                   \o [i \in 1..Len(ks) |->
                         [name |-> ReportPool(mode)[ks[i]],
                          vals |-> [r \in 1..nrows |-> RawCell(ks[i], r)]]],
         nrows |-> nrows]

ReportTables ==
    {ParseError} \cup
    {ReportTable(mode, present, rev, nrows) :
        mode \in {"alarm", "operlog"},
        present \in SUBSET (1..7), rev \in BOOLEAN, nrows \in 0..MaxRows}
    \cup
    {ReportTable("other", present, rev, nrows) :
        present \in SUBSET (1..8), rev \in BOOLEAN, nrows \in 0..MaxRows}

ReportNames == {fAlarm, fBatch, fOperlog}

PRINT_DELAY_S == 60

\* one record of the log file: "%(asctime)s [%(levelname)s] %(message)s"
Line(level, msg) == [level |-> level, msg |-> msg]

\* log.info / log.error / log.exception through the FileHandler
log_write(lines, level, msg) == Append(lines, Line(level, msg))

\* mutant: the sleep returns at once
time_sleep_returns_early(p, secs) == [p EXCEPT !.state = "Waiting"]

\* time.sleep(secs) suspends the thread for at least secs seconds
time_sleep(p, secs) == [p EXCEPT !.state = "Waiting", !.waited = @ + secs]

\* win32api.ShellExecute(0, "print", ...) or os.startfile(pdf, "print")
print_request(p) == [p EXCEPT !.state = "Dispatched", !.requests = @ + 1]

\* _popup(msg): a message box on Windows, nothing elsewhere
popup(p) == IF p.os = "nt" THEN [p EXCEPT !.alerts = @ + 1] ELSE p

\* mutant: the failure is logged and the log is not shown
print_failed_quietly(p) == [popup(p) EXCEPT !.state = "Failed"]

\* except Exception as e: log.error(...); _popup(...); subprocess.Popen(["notepad.exe", LOG_PATH])
print_failed(p) == [popup(p) EXCEPT !.state = "Failed", !.notepad = @ + 1]

InitReport ==
    /\ \E os \in {"nt", "posix"} : printer = [NoPrinter EXCEPT !.os = os]
    /\ log = <<>>
    /\ pc = "r_main"
    /\ csv_path \in ReportNames
    /\ raw \in ReportTables
    /\ gen = "none"
    /\ df = NoDf
    /\ missing_cols = <<>>
    /\ story = <<>>
    /\ exit_code = -1
    /\ output = FALSE
    /\ error = ""
    /\ entries = <<>>
    /\ found = NoFound

\* csv = _latest_csv(); mode = _detect_mode(csv); log.info("CSV selezionato: ...")
ReportDetect ==
    /\ pc = "r_main"
    /\ gen' = detect_mode(csv_path)
    /\ log' = log_write(log, "INFO", "CSV selezionato")
    /\ pc' = "r_load"
    /\ UNCHANGED <<csv_path, raw, df, missing_cols, story, exit_code, output, error, entries, found, printer>>

\* df = _load_df(csv, mode)
ReportLoad ==
    /\ pc = "r_load"
    /\ \E order \in sort_orders(datetime_keys(raw.cols, raw.nrows)) :
         LET res == load_df(raw, gen, order)
         IN  /\ df' = res.df
             /\ missing_cols' = res.missing
             /\ error' = res.raised
             /\ pc' = IF res.raised = "" THEN "r_build" ELSE "r_except"
    /\ UNCHANGED <<gen, csv_path, raw, story, exit_code, output, entries, found, printer, log>>

\* _build_pdf(df, csv, pdf, mode); doc.build may raise; log.info("PDF creato: ...")
ReportBuild ==
    /\ pc = "r_build"
    /\ \E rendered \in BOOLEAN :
        /\ output' = rendered
        /\ error' = IF rendered THEN "" ELSE "render_failure"
        /\ log' = IF rendered THEN log_write(log, "INFO", "PDF creato") ELSE log
        /\ pc' = IF rendered THEN "r_print" ELSE "r_except"
    /\ story' = build_pdf_story(df, csv_path, gen)
    /\ UNCHANGED <<gen, csv_path, raw, df, missing_cols, exit_code, entries, found, printer>>

\* _print_pdf(pdf) off Windows: log.info("Stampa saltata (non Windows)"); return;
\* main() returns and the process ends with status 0
ReportPrintSkipped ==
    /\ pc = "r_print" /\ printer.os # "nt"
    /\ log' = log_write(log, "INFO", "Stampa saltata (non Windows)")
    /\ exit_code' = 0
    /\ pc' = "r_done"
    /\ UNCHANGED <<gen, csv_path, raw, df, missing_cols, story, output, error, entries, found, printer>>

\* _print_pdf(pdf) on Windows: time.sleep(PRINT_DELAY_S)
ReportPrintWait ==
    /\ pc = "r_print" /\ printer.os = "nt"
    /\ printer' = time_sleep(printer, PRINT_DELAY_S)
    /\ pc' = "r_dispatch"
    /\ UNCHANGED <<gen, csv_path, raw, df, missing_cols, story, exit_code, output, error, entries, found, log>>

\* the print request is handed to the shell; it returns or raises
ReportPrintDispatch ==
    /\ pc = "r_dispatch"
    /\ printer' = print_request(printer)
    /\ \E raised \in BOOLEAN : pc' = IF raised THEN "r_print_raised" ELSE "r_print_sent"
    /\ UNCHANGED <<gen, csv_path, raw, df, missing_cols, story, exit_code, output, error, entries, found, log>>

\* log.info("PDF inviato alla stampante predefinita"); main() returns
ReportPrintConfirmed ==
    /\ pc = "r_print_sent"
    /\ printer' = [printer EXCEPT !.state = "Confirmed"]
    /\ log' = log_write(log, "INFO", "PDF inviato alla stampante predefinita")
    /\ exit_code' = 0
    /\ pc' = "r_done"
    /\ UNCHANGED <<gen, csv_path, raw, df, missing_cols, story, output, error, entries, found>>

\* the except arm of _print_pdf; main() returns
ReportPrintFailed ==
    /\ pc = "r_print_raised"
    /\ printer' = print_failed(printer)
    /\ log' = log_write(log, "ERROR", "Errore stampa")
    /\ exit_code' = 0
    /\ pc' = "r_done"
    /\ UNCHANGED <<gen, csv_path, raw, df, missing_cols, story, output, error, entries, found>>

\* except Exception as err: log.exception(...); _popup(...); raise
ReportExcept ==
    /\ pc = "r_except"
    /\ log' = log_write(log, "ERROR", "Errore irreversibile")
    /\ printer' = popup(printer)
    /\ exit_code' = 1
    /\ pc' = "r_done"
    /\ UNCHANGED <<gen, csv_path, raw, df, missing_cols, story, output, error, entries, found>>

NextReport ==
    \/ ReportDetect
    \/ ReportLoad
    \/ ReportBuild
    \/ ReportPrintSkipped
    \/ ReportPrintWait
    \/ ReportPrintDispatch
    \/ ReportPrintConfirmed
    \/ ReportPrintFailed
    \/ ReportExcept

SpecReport == InitReport /\ [][NextReport]_vars

\* C5: loading never fails on missing columns: for every mode and every
\* set of required columns absent from the file, the load returns a table
\* with the columns that are present and the list of the missing names, and
\* neither raises nor aborts the run.
C5_MissingColumnsNeverFatal ==
    (raw.ok /\ pc \in {"r_build", "r_except", "r_print", "r_done"})
    => /\ error # "missing_columns"
       /\ ~df.none

\* C22: in Telemetry mode the title of the document is a value of the
\* BATCH_NAME column of the input data whenever the input has that column
\* and a row, and the stem of the source file name otherwise.
C22_TitleIsBatchIdentifier ==
    (pc \in {"r_print", "r_done"} /\ gen = "other" /\ story # <<>>)
    => /\ story[1].kind = "title"
       /\ IF HasColumn(raw.cols, cBATCH_NAME) /\ raw.nrows > 0
          THEN story[1].text \in Range(Column(raw.cols, cBATCH_NAME).vals)
          ELSE story[1].text = stem(csv_path)

Logged(level, msg) == \E i \in 1..Len(log) : log[i] = Line(level, msg)

\* the scheduler moves one stage forward at a time
PrintStage(from, to) ==
    \/ from = to
    \/ from = "Idle" /\ to = "Waiting"
    \/ from = "Waiting" /\ to = "Dispatched"
    \/ from = "Dispatched" /\ to \in {"Confirmed", "Failed"}

\* C25: the print step goes Idle, Waiting, Dispatched, then Confirmed or
\* Failed; the print request is issued only after the whole configured
\* delay has elapsed, at most once per document, and never again once
\* Confirmed or Failed is reached.
C25_PrintOnceAfterDelay ==
    [][/\ PrintStage(printer.state, printer'.state)
       /\ (printer'.requests # printer.requests)
            => /\ printer.requests = 0 /\ printer'.requests = 1
               /\ printer.state = "Waiting"
               /\ printer.waited >= PRINT_DELAY_S
       /\ (printer.state \in {"Confirmed", "Failed"}) => printer' = printer]_vars

C25_Witness ==
    /\ pc = "r_done" /\ printer.state = "Confirmed"
    /\ printer.requests = 1 /\ printer.waited = PRINT_DELAY_S
    /\ Logged("INFO", "PDF inviato alla stampante predefinita")

Attempts == Cardinality({i \in 1..Len(log) : log[i] = Line("INFO", "CSV selezionato")})

\* C27: when the generation step throws, the whole pipeline is executed
\* again from the source location, once; the error is fatal only after the
\* second attempt failed, and there is never a third attempt.
C27_GenerationRetriedOnce ==
    [][/\ (pc = "r_except" /\ Attempts < 2) => (pc' = "r_main" /\ exit_code' = -1)
       /\ Attempts' <= 2]_vars

----------------------------------------------------------------------------
(* Date-named folders: parse_directory_date and find_csv_operlog *)

NoDate == [none |-> TRUE, y |-> 0, m |-> 0, d |-> 0]

\* re.match(r'^(\d{2})(\d{2})(\d{2})$', dirname): six digits from the start,
\* then the end of the string; `$` also matches just before a final newline
match_six_digits(dirname) ==
    /\ Len(dirname) >= 6
    /\ AllDigits(SubSeq(dirname, 1, 6))
    /\ \/ Len(dirname) = 6
       \/ Len(dirname) = 7 /\ dirname[7] = "\n"

\* parse_directory_date(dirname): the three groups as datetime(2000 + YY, MM, DD),
\* None when the pattern or the date fails
parse_directory_date(dirname) ==
    IF match_six_digits(dirname)
    THEN LET day   == ToInt(SubSeq(dirname, 1, 2))
             month == ToInt(SubSeq(dirname, 3, 4))
             full_year == 2000 + ToInt(SubSeq(dirname, 5, 6))
         IN  IF ValidDate(full_year, month, day)
             THEN [none |-> FALSE, y |-> full_year, m |-> month, d |-> day]
             ELSE NoDate
    ELSE NoDate

DayTexts   == {<<"0", "0">>, <<"0", "1">>, <<"1", "5">>, <<"2", "8">>, <<"2", "9">>, <<"3", "0">>, <<"3", "1">>, <<"3", "2">>}
MonthTexts == {<<"0", "0">>, <<"0", "1">>, <<"0", "2">>, <<"0", "4">>, <<"0", "7">>, <<"1", "2">>, <<"1", "3">>}
YearTexts  == {<<"0", "0">>, <<"2", "3">>, <<"2", "4">>, <<"9", "9">>}

\* directory names that are not six digits; the last one ends in a newline
OddDirNames == {<<"2", "0", "2", "4", "-", "0", "1", "-", "0", "1">>, <<"1", "5", "0", "7", "2">>, <<"1", "5", "0", "7", "2", "4", "5">>, <<"1", "5", "O", "7", "2", "4">>, <<"1", "5", "-", "0", "7", "-", "2", "4">>, <<"1", "5", "0", "7", "2", "4", " ">>, <<"x", "1", "5", "0", "7", "2", "4">>, <<"1", "5", ".", "0", "7", ".", "2", "4">>, <<>>,
                <<"1", "5", "0", "7", "2", "4", "\n">>}

DirNames == {dd \o mm \o yy : dd \in DayTexts, mm \in MonthTexts, yy \in YearTexts}
            \cup OddDirNames

InitDate ==
    /\ printer = NoPrinter
    /\ log = <<>>
    /\ pc = "parse"
    /\ \E n \in DirNames : entries = <<[name |-> n, isdir |-> TRUE, files |-> <<>>]>>
    /\ found = NoFound
    /\ gen = "none"
    /\ csv_path = <<>>
    /\ raw = ParseError
    /\ df = NoDf
    /\ missing_cols = <<>>
    /\ story = <<>>
    /\ exit_code = -1
    /\ output = FALSE
    /\ error = ""

\* parsed_date = parse_directory_date(item)
ParseDirectoryDate ==
    /\ pc = "parse"
    /\ found' = [NoFound EXCEPT !.date = parse_directory_date(entries[1].name)]
    /\ pc' = "parsed"
    /\ UNCHANGED <<gen, csv_path, raw, df, missing_cols, story, exit_code, output, error, entries, printer, log>>

NextDate == ParseDirectoryDate

SpecDate == InitDate /\ [][NextDate]_vars

\* the calendar of the years 2000..2099, written out
CalendarDays(mm, yy) ==
    CASE mm \in {1, 3, 5, 7, 8, 10, 12} -> 31
      [] mm \in {4, 6, 9, 11}           -> 30
      [] mm = 2                         -> (IF yy % 4 = 0 THEN 29 ELSE 28)
      [] OTHER                          -> 0

Num2(a, b) == 10 * DigitVal(a) + DigitVal(b)

IsDDMMYY(n) ==
    /\ Len(n) = 6
    /\ \A i \in 1..6 : n[i] \in DigitSet
    /\ Num2(n[1], n[2]) >= 1
    /\ Num2(n[1], n[2]) <= CalendarDays(Num2(n[3], n[4]), Num2(n[5], n[6]))

d150724   == <<"1", "5", "0", "7", "2", "4">>
d20240101 == <<"2", "0", "2", "4", "-", "0", "1", "-", "0", "1">>
d320124   == <<"3", "2", "0", "1", "2", "4">>
d151324   == <<"1", "5", "1", "3", "2", "4">>

\* C9: a directory name is accepted as a date folder exactly when it is six
\* digits DDMMYY that form a calendar date of the year 2000+YY, and the
\* date it decodes to is that day, month and year; "150724" is 15 July 2024.
C9_DateFolderNames ==
    (pc = "parsed")
    => LET n == entries[1].name
       IN  /\ (~found.date.none) <=> IsDDMMYY(n)
           /\ (~found.date.none) =>
                /\ found.date.d = Num2(n[1], n[2])
                /\ found.date.m = Num2(n[3], n[4])
                /\ found.date.y = 2000 + Num2(n[5], n[6])
           /\ (n = d150724) => found.date = [none |-> FALSE, y |-> 2024, m |-> 7, d |-> 15]
           /\ (n \in {d20240101, d320124, d151324}) => found.date.none

----------------------------------------------------------------------------
(* find_csv_operlog: the latest date folder, then the newest OPERLOG csv *)

MaxDirs == 3

d010824  == <<"0", "1", "0", "8", "2", "4">>
d311223  == <<"3", "1", "1", "2", "2", "3">>
d020125n == <<"0", "2", "0", "1", "2", "5">> \o <<"\n">>

\* names of the entries of the base directory
LocateNames == {d150724, d010824, d311223, d320124, d020125n}

fOperlogA == <<"o", "p", "e", "r", "l", "o", "g", "_", "a", ".", "c", "s", "v">>
fOPERLOGB == <<"O", "P", "E", "R", "L", "O", "G", "_", "B", ".", "c", "s", "v">>
fAlarmC   == <<"a", "l", "a", "r", "m", ".", "c", "s", "v">>

sOperlogLower == <<"o", "p", "e", "r", "l", "o", "g">>
sOperlogUpper == <<"O", "P", "E", "R", "L", "O", "G">>
sDotCsv       == <<".", "c", "s", "v">>

\* listings of one folder: [name, mtime] in os.listdir order
FolderListings ==
    { <<>>,
      <<[name |-> fOPERLOGB, mtime |-> 2], [name |-> fOperlogA, mtime |-> 2],
        [name |-> fAlarmC, mtime |-> 3]>> }

DirEntries == [name : LocateNames, isdir : BOOLEAN, files : FolderListings]

\* os.listdir(base_directory): entries with pairwise distinct names
Listings ==
    UNION { {e \in [1..n -> DirEntries] :
                \A i, j \in 1..n : i # j => e[i].name # e[j].name} : n \in 0..MaxDirs }

\* datetime comparison: year, then month, then day
date_key(dt) == (dt.y * 12 + (dt.m - 1)) * 31 + (dt.d - 1)

\* date_dirs: the indices of the directories whose name parses, in listing order
SelectIdx(e, Keep(_)) ==
    LET F[i \in 0..Len(e)] ==
            IF i = 0 THEN <<>>
            ELSE IF Keep(i) THEN Append(F[i - 1], i) ELSE F[i - 1]
    IN  F[Len(e)]

date_dirs(e) ==
    LET Keep(i) == e[i].isdir /\ ~parse_directory_date(e[i].name).none
    IN  SelectIdx(e, Keep)

\* list.sort(key=..., reverse=True)[0]: the first element with the largest key
first_of_sorted_desc(seq, Key(_)) ==
    seq[CHOOSE i \in 1..Len(seq) :
            /\ \A j \in 1..Len(seq) : Key(seq[j]) <= Key(seq[i])
            /\ \A j \in 1..(i - 1) : Key(seq[j]) < Key(seq[i])]

\* glob.glob("*<mid>*.csv") inside one folder: fnmatch on the normalised case
\* when os.name is "nt", on the exact case elsewhere; dot files are skipped
glob_csv(files, mid, nt) ==
    LET norm(x) == IF nt THEN lower(x) ELSE x
        Keep(i) ==
            LET n == norm(files[i].name)
            IN  /\ Len(n) >= 4
                /\ n[1] # "."
                /\ endswith(n, sDotCsv)
                /\ contains(SubSeq(n, 1, Len(n) - 4), norm(mid))
    IN  [k \in 1..Len(SelectIdx(files, Keep)) |-> files[SelectIdx(files, Keep)[k]]]

\* find_csv_operlog(base_directory)
find_csv_operlog(e, nt) ==
    LET dd == date_dirs(e)
    IN  IF dd = <<>> THEN NoFound
        ELSE LET DirKey(i) == date_key(parse_directory_date(e[i].name))
                 most_recent_dir == first_of_sorted_desc(dd, DirKey)
                 files == glob_csv(e[most_recent_dir].files, sOperlogLower, nt)
                          \o glob_csv(e[most_recent_dir].files, sOperlogUpper, nt)
                 FileKey(f) == f.mtime
             IN  IF files = <<>>
                 THEN [none |-> TRUE,
                       date |-> parse_directory_date(e[most_recent_dir].name),
                       dir |-> most_recent_dir, file |-> <<>>]
                 ELSE [none |-> FALSE,
                       date |-> parse_directory_date(e[most_recent_dir].name),
                       dir |-> most_recent_dir,
                       file |-> first_of_sorted_desc(files, FileKey).name]

InitLocate ==
    /\ printer = NoPrinter
    /\ log = <<>>
    /\ pc = "locate"
    /\ entries \in Listings
    /\ found = NoFound
    /\ gen = "operlog"
    /\ csv_path = <<>>
    /\ raw = ParseError
    /\ df = NoDf
    /\ missing_cols = <<>>
    /\ story = <<>>
    /\ exit_code = -1
    /\ output = FALSE
    /\ error = ""

\* csv_path = find_csv_operlog(), on either kind of file system
FindCsvOperlog ==
    /\ pc = "locate"
    /\ \E nt \in BOOLEAN :
         /\ found' = find_csv_operlog(entries, nt)
         /\ csv_path' = found'.file
    /\ pc' = "located"
    /\ UNCHANGED <<gen, raw, df, missing_cols, story, exit_code, output, error, entries, printer, log>>

\* if not csv_path: print("ERRORE: Nessun file CSV OPERLOG trovato ..."); sys.exit(1)
LocateFailed ==
    /\ pc = "located"
    /\ found.none
    /\ exit_code' = 1
    /\ error' = "not_found"
    /\ pc' = "done"
    /\ UNCHANGED <<gen, csv_path, raw, df, missing_cols, story, output, entries, found, printer, log>>

NextLocate ==
    \/ FindCsvOperlog
    \/ LocateFailed

SpecLocate == InitLocate /\ [][NextLocate]_vars

\* the date written in a six-digit name, as (year, month, day)
NameLater(a, b) ==
    \/ Num2(a[5], a[6]) > Num2(b[5], b[6])
    \/ /\ Num2(a[5], a[6]) = Num2(b[5], b[6])
       /\ \/ Num2(a[3], a[4]) > Num2(b[3], b[4])
          \/ /\ Num2(a[3], a[4]) = Num2(b[3], b[4])
             /\ Num2(a[1], a[2]) > Num2(b[1], b[2])

ValidFolders == {i \in 1..Len(entries) : entries[i].isdir /\ IsDDMMYY(entries[i].name)}

\* C10: the folder searched is the directory with a valid six-digit name
\* whose date is the latest by year, then month, then day; files and
\* invalid names are never searched, and without a valid folder none is.
C10_LatestDateFolder ==
    (pc = "located")
    => /\ (found.dir = 0) <=> (ValidFolders = {})
       /\ (found.dir # 0) =>
            /\ found.dir \in ValidFolders
            /\ \A j \in ValidFolders \ {found.dir} :
                   NameLater(entries[found.dir].name, entries[j].name)

\* the files of a folder that carry the OPERLOG marker and the csv suffix
Qualifying(files) == {k \in 1..Len(files) : files[k].name \in {fOperlogA, fOPERLOGB}}

\* the valid date folder with the latest date, 0 when there is none
LatestValidFolder ==
    IF ValidFolders = {} THEN 0
    ELSE CHOOSE i \in ValidFolders :
            \A j \in ValidFolders \ {i} : NameLater(entries[i].name, entries[j].name)

\* C11: the locator reports not-found when no sub-directory has a valid
\* six-digit date name, and when the latest valid date folder holds no
\* qualifying file even if an older one does; a file that is returned
\* always comes from the latest valid date folder, never from another one.
C11_NoFallbackToOtherFolders ==
    (pc \in {"located", "done"})
    => /\ (LatestValidFolder = 0) => found.none
       /\ (LatestValidFolder # 0 /\ Qualifying(entries[LatestValidFolder].files) = {})
             => found.none
       /\ (~found.none) => found.dir = LatestValidFolder
       /\ (pc = "done") => (found.none /\ exit_code = 1)

----------------------------------------------------------------------------
(* Flat-directory scans: find_csv_alarm, find_csv_batch, _latest_csv and
   find_csv_files of run_reports *)

MaxFiles == 3

fAlarmA       == <<"a", "l", "a", "r", "m", "_", "a", ".", "c", "s", "v">>
fALARMbatch   == <<"A", "L", "A", "R", "M", "_", "b", "a", "t", "c", "h", ".", "c", "s", "v">>
fBatchAlarm   == <<"b", "a", "t", "c", "h", "_", "a", "l", "a", "r", "m", ".", "c", "s", "v">>
fOPERLOGBATCH == <<"O", "P", "E", "R", "L", "O", "G", "_", "B", "A", "T", "C", "H", ".", "c", "s", "v">>
fBatch1       == <<"b", "a", "t", "c", "h", "_", "1", ".", "c", "s", "v">>
fBatch2       == <<"B", "a", "t", "c", "h", "_", "2", ".", "c", "s", "v">>

sAlarmLower == <<"a", "l", "a", "r", "m">>
sBatchLower == <<"b", "a", "t", "c", "h">>
sBatchUpper == <<"B", "A", "T", "C", "H">>

FlatNames == {fAlarmA, fALARMbatch, fBatchAlarm, fOPERLOGBATCH, fBatch1, fBatch2}

FlatFiles == [name : FlatNames, mtime : 1..2]

\* the csv files of the scanned directory, in os.listdir order
FlatListings ==
    UNION { {e \in [1..n -> FlatFiles] :
                \A i, j \in 1..n : i # j => e[i].name # e[j].name} : n \in 0..MaxFiles }

\* which scan runs
Locators == {"alarm", "batch", "report", "run:batch", "run:alarm", "run:operlog"}

\* ord(c) for the characters of the file names
Ord(c) ==
    CASE c = "."        -> 46
      [] c \in DigitSet -> 48 + DigitVal(c)
      [] c \in UpperSet -> 64 + IndexIn(c, UpperChars)
      [] c = "_"        -> 95
      [] c \in LowerSet -> 96 + IndexIn(c, LowerChars)
      [] OTHER          -> 0

\* a < b for str
str_less(a, b) ==
    \E k \in 1..(Len(b)) :
        /\ \A i \in 1..(k - 1) : i <= Len(a) /\ a[i] = b[i]
        /\ \/ k = Len(a) + 1
           \/ k <= Len(a) /\ Ord(a[k]) < Ord(b[k])

\* the first element no other element exceeds: max(seq, key=...) and
\* sorted(seq, key=..., reverse=True)[0]
first_max(seq, Less(_, _)) ==
    seq[CHOOSE i \in 1..Len(seq) :
            /\ \A j \in 1..Len(seq) : ~Less(seq[i], seq[j])
            /\ \A j \in 1..(i - 1) : Less(seq[j], seq[i])]

\* key=lambda x: (os.path.getmtime(x), x)
mtime_name_less(f, g) ==
    \/ f.mtime < g.mtime
    \/ f.mtime = g.mtime /\ str_less(f.name, g.name)

\* key=os.path.getmtime
mtime_less(f, g) == f.mtime < g.mtime

FoundFile(f) == [NoFound EXCEPT !.none = FALSE, !.file = f.name]

\* find_csv_alarm(directory)
find_csv_alarm(files, nt) ==
    LET fs == glob_csv(files, sAlarmLower, nt) \o glob_csv(files, sALARM, nt)
    IN  IF fs = <<>> THEN NoFound ELSE FoundFile(first_max(fs, mtime_name_less))

\* find_csv_batch(directory)
find_csv_batch(files, nt) ==
    LET fs == glob_csv(files, sBatchLower, nt) \o glob_csv(files, sBatchUpper, nt)
    IN  IF fs = <<>> THEN NoFound ELSE FoundFile(first_max(fs, mtime_name_less))

\* generate_report._latest_csv(): max over glob("*.csv") by st_mtime
latest_csv(files, nt) ==
    LET fs == glob_csv(files, <<>>, nt)
    IN  IF fs = <<>> THEN NoFound ELSE FoundFile(first_max(fs, mtime_less))

\* glob.glob("<pre>*.csv")
glob_prefix_csv(files, pre, nt) ==
    LET norm(x) == IF nt THEN lower(x) ELSE x
        Keep(i) ==
            LET n == norm(files[i].name)
            IN  /\ Len(n) >= Len(pre) + 4
                /\ endswith(n, sDotCsv)
                /\ startswith(n, norm(pre))
    IN  [k \in 1..Len(SelectIdx(files, Keep)) |-> files[SelectIdx(files, Keep)[k]]]

\* pattern_map of run_reports: the upper-case pattern first
pattern_map(report_type) ==
    CASE report_type = "batch"   -> <<sBatchUpper, sBatchLower>>
      [] report_type = "alarm"   -> <<sALARM, sAlarmLower>>
      [] report_type = "operlog" -> <<sOPERLOG, sOperlogLower>>

\* the filter of find_csv_files on os.path.basename(file).upper()
keep_for_type(report_type, name) ==
    LET filename == upper(name)
    IN  CASE report_type = "batch" ->
                ~(contains(filename, sOPERLOG) \/ contains(filename, sALARM))
          [] report_type = "alarm" ->
                ~(contains(filename, sOPERLOG) \/ startswith(filename, sBatchUpper))
          [] report_type = "operlog" -> startswith(filename, sOPERLOG)

\* run_reports.find_csv_files(data_dir, report_type), then csv_files[0]
find_csv_files(files, report_type, nt) ==
    LET fs == glob_prefix_csv(files, pattern_map(report_type)[1], nt)
              \o glob_prefix_csv(files, pattern_map(report_type)[2], nt)
        Kept(f) == keep_for_type(report_type, f.name)
        filtered_files == SelectSeq(fs, Kept)
    IN  IF filtered_files = <<>> THEN NoFound
        ELSE FoundFile(first_max(filtered_files, mtime_less))

InitFlat ==
    /\ printer = NoPrinter
    /\ log = <<>>
    /\ pc = "scan"
    /\ gen \in Locators
    /\ \E fl \in FlatListings :
         entries = <<[name |-> <<".">>, isdir |-> TRUE, files |-> fl]>>
    /\ found = NoFound
    /\ csv_path = <<>>
    /\ raw = ParseError
    /\ df = NoDf
    /\ missing_cols = <<>>
    /\ story = <<>>
    /\ exit_code = -1
    /\ output = FALSE
    /\ error = ""

Scanned(result) ==
    /\ found' = result
    /\ csv_path' = result.file
    /\ pc' = "scanned"
    /\ UNCHANGED <<gen, raw, df, missing_cols, story, exit_code, output, error, entries, printer, log>>

\* csv_path = find_csv_alarm()
FindCsvAlarm ==
    /\ pc = "scan" /\ gen = "alarm"
    /\ \E nt \in BOOLEAN : Scanned(find_csv_alarm(entries[1].files, nt))

\* csv_path = find_csv_batch()
FindCsvBatch ==
    /\ pc = "scan" /\ gen = "batch"
    /\ \E nt \in BOOLEAN : Scanned(find_csv_batch(entries[1].files, nt))

\* csv = _latest_csv()
LatestCsv ==
    /\ pc = "scan" /\ gen = "report"
    /\ \E nt \in BOOLEAN : Scanned(latest_csv(entries[1].files, nt))

\* csv_files = find_csv_files(data_dir, report_type); csv_file = csv_files[0]
FindCsvFiles ==
    /\ pc = "scan"
    /\ \E report_type \in {"batch", "alarm", "operlog"}, nt \in BOOLEAN :
         /\ gen = "run:" \o report_type
         /\ Scanned(find_csv_files(entries[1].files, report_type, nt))

NextFlat ==
    \/ FindCsvAlarm
    \/ FindCsvBatch
    \/ LatestCsv
    \/ FindCsvFiles

SpecFlat == InitFlat /\ [][NextFlat]_vars

\* the files a scan may choose from, whatever the case rules of the file system
HasMarker(name, marker) == contains(lower(name), lower(marker))

Candidates ==
    LET fl == entries[1].files
    IN  CASE gen = "alarm"  -> {k \in 1..Len(fl) : HasMarker(fl[k].name, sALARM)}
          [] gen = "report" -> 1..Len(fl)
          [] OTHER          -> {}

\* C12: the selected file has the most recent modification time among the
\* matching files, and among the matching files with that time it is the
\* one with the greatest name.
C12_NewestThenGreatestName ==
    (pc = "scanned" /\ gen \in {"alarm", "report"} /\ Candidates # {})
    => \E k \in Candidates :
          /\ entries[1].files[k].name = found.file
          /\ \A j \in Candidates \ {k} :
                \/ entries[1].files[j].mtime < entries[1].files[k].mtime
                \/ /\ entries[1].files[j].mtime = entries[1].files[k].mtime
                   /\ str_less(entries[1].files[j].name, entries[1].files[k].name)

\* C13: a batch (Telemetry) scan never selects a file whose name also
\* carries the ALARM or OPERLOG marker, whatever the modification times.
C13_BatchScanExcludesOtherMarkers ==
    (pc = "scanned" /\ gen \in {"batch", "run:batch"} /\ ~found.none)
    => /\ ~HasMarker(found.file, sALARM)
       /\ ~HasMarker(found.file, sOPERLOG)

----------------------------------------------------------------------------
(* find_header_row: the line the table starts at *)

MaxPad == 11
MaxLines == 2

sdate == <<"d", "a", "t", "e">>

\* the value returned when no header line is found
DefaultHeaderRow == 3

\* mutant: the prefix is compared as written, without lower()
is_header_line_exact_case(line) == startswith(remove_quotes(strip(line)), sdate)

\* clean_line = line.strip().replace('"', '').replace("'", "")
\* clean_line.lower().startswith('date')
is_header_line(line) == startswith(lower(remove_quotes(strip(line))), sdate)

\* find_header_row(filepath, max_scan_rows): lines are indexed from 0; an
\* exception while opening or reading ends in the default
find_header_row(lines, readable, max_scan_rows) ==
    LET hits == {i \in 0..(Len(lines) - 1) :
                    i < max_scan_rows /\ is_header_line(lines[i + 1])}
    IN  IF ~readable \/ hits = {} THEN DefaultHeaderRow
        ELSE CHOOSE i \in hits : \A j \in hits : i <= j

\* a preamble line of an export file
PadLine == <<"A", "l", "a", "r", "m", " ", "l", "o", "g", "\n">>

\* lines an export file may hold
HeaderLines == {<<"D", "a", "t", "e", "\t", "T", "i", "m", "e", "\n">>,
                <<"\"", "D", "a", "t", "e", "\"", ",", "\"", "T", "i", "m", "e", "\"", "\n">>,
                <<" ", "'", "D", "A", "T", "E", "'", ";", "x", " ", "\n">>,
                <<"\"", "d", "A", "t", "E", "\n">>,
                <<"D", "a", "t", "\n">>,
                <<"U", "p", "d", "a", "t", "e", "\n">>,
                <<"\"", " ", "D", "a", "t", "e", "\"", "\n">>,
                <<"\n">>}

\* callers use the default budget of 10 lines; smaller ones are tried too
ScanBudgets == {0, 2, 10}

Preamble(k) == [i \in 1..k |-> PadLine]

HeaderFiles ==
    {Preamble(k) \o body :
        k \in 0..MaxPad,
        body \in UNION {[1..n -> HeaderLines] : n \in 0..MaxLines}}

InitHeader ==
    /\ printer = NoPrinter
    /\ log = <<>>
    /\ pc = "find_header"
    /\ \E ls \in HeaderFiles, r \in BOOLEAN, b \in ScanBudgets :
         raw = [ok |-> r, lines |-> ls, max_scan_rows |-> b]
    /\ found = [row |-> -1]
    /\ gen = "none"
    /\ csv_path = <<>>
    /\ df = NoDf
    /\ missing_cols = <<>>
    /\ story = <<>>
    /\ exit_code = -1
    /\ output = FALSE
    /\ error = ""
    /\ entries = <<>>

\* header_row = find_header_row(filepath)
FindHeaderRow ==
    /\ pc = "find_header"
    /\ found' = [row |-> find_header_row(raw.lines, raw.ok, raw.max_scan_rows)]
    /\ pc' = "header_found"
    /\ UNCHANGED <<gen, csv_path, raw, df, missing_cols, story, exit_code, output, error, entries, printer, log>>

NextHeader == FindHeaderRow

SpecHeader == InitHeader /\ [][NextHeader]_vars

\* the characters of the line after its leading whitespace, quote characters
\* left out, begin with d, a, t, e in any letter case
IsBlank(c) == c \in {" ", "\t", "\n", "\r"}

\* position q holds one of the two letters and only quote characters lie
\* between position p and it
NextLetter(line, p, q, letters) ==
    /\ line[q] \in letters
    /\ \A i \in (p + 1)..(q - 1) : line[i] \in {"\"", "'"}

BeginsWithDate(line) ==
    \E w \in 0..Len(line) :
        /\ \A i \in 1..w : IsBlank(line[i])
        /\ w < Len(line) /\ ~IsBlank(line[w + 1])
        /\ \E p1 \in (w + 1)..Len(line) :
              /\ NextLetter(line, w, p1, {"d", "D"})
              /\ \E p2 \in (p1 + 1)..Len(line) :
                    /\ NextLetter(line, p1, p2, {"a", "A"})
                    /\ \E p3 \in (p2 + 1)..Len(line) :
                          /\ NextLetter(line, p2, p3, {"t", "T"})
                          /\ \E p4 \in (p3 + 1)..Len(line) :
                                NextLetter(line, p3, p4, {"e", "E"})

HeaderHits ==
    {i \in 0..(Len(raw.lines) - 1) :
        i < raw.max_scan_rows /\ BeginsWithDate(raw.lines[i + 1])}

\* C14: find_header_row returns the zero-based index of the first of the
\* first max_scan_rows lines that, trimmed and without quote characters,
\* begins with "date" in any letter case; when there is none, or the file
\* cannot be read, it returns 3.
C14_HeaderRowOrDefault ==
    (pc = "header_found")
    => IF raw.ok /\ HeaderHits # {}
       THEN /\ found.row \in HeaderHits
            /\ \A j \in HeaderHits : found.row <= j
       ELSE found.row = 3

C14_Witness ==
    /\ pc = "header_found"
    /\ raw.ok
    /\ raw.max_scan_rows = 10
    /\ found.row = 9
    /\ Len(raw.lines) > 10

----------------------------------------------------------------------------
(* The generators on files with the full header and dated rows *)

sD0201 == <<"0", "2", "/", "0", "1", "/", "2", "0", "2", "4">>
sD0102 == <<"0", "1", "/", "0", "2", "/", "2", "0", "2", "4">>
sD1231 == <<"1", "2", "/", "3", "1", "/", "2", "0", "2", "3">>
sDiso  == <<"2", "0", "2", "4", "-", "0", "1", "-", "0", "2">>
sT10   == <<"1", "0", ":", "0", "0", ":", "0", "0">>
sT09   == <<"0", "9", ":", "3", "0", ":", "0", "0">>

\* rows of an export file: date, time, a measurement and a free text
RowKinds ==
    { [date |-> sD0201, time |-> sT10, temp |-> <<"2", "3", ".", "4", "5", "6">>, text |-> <<"'", "-">>],
      [date |-> sD0102, time |-> sT10, temp |-> <<"2", "3", ",", "4">>, text |-> <<" ", "\"", "x", "\"", " ">>],
      [date |-> sD0102, time |-> sT10, temp |-> <<"a", "b", "c">>, text |-> NaN],
      [date |-> sDiso,  time |-> sT10, temp |-> NaN, text |-> <<"n", "a", "n">>],
      [date |-> sD1231, time |-> sT09, temp |-> <<"2", "2", ".", "2", "5">>, text |-> <<"o", "k">>] }

\* the cell that tells the rows of a file apart
RowId(r) == <<"r", Digits[r + 1]>>

\* the column a generator keeps the row mark in
IdCol(g) ==
    CASE g = "alarm"   -> cAlarmMessage
      [] g = "operlog" -> cObject_Action
      [] g = "batch"   -> cUSER

\* what a column of the file holds
RowCell(g, name, kind, r) ==
    CASE name = cDate    -> kind.date
      [] name = cTime    -> kind.time
      [] name = IdCol(g) -> RowId(r)
      [] name \in {cTEMP_AIR_IN, cTEMP_PRODUCT_1, cChangedValue} -> kind.temp
      [] OTHER -> kind.text

RowTable(g, kinds) ==
    [ok    |-> TRUE,
     cols  |-> [i \in 1..Len(required_cols(g)) |->
                  [name |-> required_cols(g)[i],
                   vals |-> [r \in 1..Len(kinds) |->
                               RowCell(g, required_cols(g)[i], kinds[r], r)]]],
     nrows |-> Len(kinds)]

RowTables(g) ==
    {ParseError} \cup
    {RowTable(g, kinds) : kinds \in UNION {[1..n -> RowKinds] : n \in 0..MaxRows}}

InitRows ==
    /\ printer = NoPrinter
    /\ log = <<>>
    /\ pc = "main"
    /\ gen \in Gens
    /\ csv_path \in CsvNames(gen)
    /\ raw \in RowTables(gen)
    /\ df = NoDf
    /\ missing_cols = <<>>
    /\ story = <<>>
    /\ exit_code = -1
    /\ output = FALSE
    /\ error = ""
    /\ entries = <<>>
    /\ found = NoFound

SpecRows == InitRows /\ [][Next]_vars

\* the input row an output row came from, 0 when its mark is not a row mark
SourceRow(i) ==
    LET mark == Column(df.cols, IdCol(gen)).vals[i]
        hits == {r \in 1..raw.nrows : RowId(r) = mark}
    IN  IF hits = {} THEN 0 ELSE CHOOSE r \in hits : TRUE

\* the timestamp written in a row: month/day/year and hour:minute:second
HasStamp(r) == Column(raw.cols, cDate).vals[r] \in {sD0201, sD0102, sD1231}

Stamp(r) ==
    LET d == Column(raw.cols, cDate).vals[r]
        h == Column(raw.cols, cTime).vals[r]
    IN  <<Num2(d[9], d[10]), Num2(d[1], d[2]), Num2(d[4], d[5]),
          Num2(h[1], h[2]), Num2(h[4], h[5]), Num2(h[7], h[8])>>

StampLess(a, b) ==
    \E k \in 1..6 : a[k] < b[k] /\ \A i \in 1..(k - 1) : a[i] = b[i]

\* C15: rows with identical timestamps leave the sort in the relative
\* order they had in the input file.
C15_SortIsStable ==
    (pc = "loaded" /\ gen = "batch" /\ ~df.none)
    => \A i, j \in 1..df.nrows :
          (i < j /\ HasStamp(SourceRow(i)) /\ HasStamp(SourceRow(j))
                 /\ Stamp(SourceRow(i)) = Stamp(SourceRow(j)))
          => SourceRow(i) < SourceRow(j)

\* C16: in every mode, with Date and Time present, the output rows are the
\* input rows, none dropped, in ascending order of the timestamp read from
\* the original date; rows without a timestamp come last, in input order.
C16_RowsAscendingByTimestamp ==
    (pc = "loaded" /\ ~df.none)
    => /\ df.nrows = raw.nrows
       /\ {SourceRow(i) : i \in 1..df.nrows} = 1..raw.nrows
       /\ \A i, j \in 1..df.nrows :
             i < j =>
               IF HasStamp(SourceRow(i))
               THEN \/ ~HasStamp(SourceRow(j))
                    \/ ~StampLess(Stamp(SourceRow(j)), Stamp(SourceRow(i)))
               ELSE ~HasStamp(SourceRow(j)) /\ SourceRow(i) < SourceRow(j)

----------------------------------------------------------------------------
(* The cell functions applied to single values *)

MonthFields == {<<"0", "1">>,
                <<"1">>,
                <<"1", "2">>,
                <<"1", "3">>,
                <<"0", "0">>,
                <<"0", "2">>}
DayFields   == {<<"0", "2">>,
                <<"2", "9">>,
                <<"3", "1">>,
                <<"2">>,
                <<"0", "0">>,
                <<"x", "2">>}
YearFields  == {<<"2", "0", "2", "4">>,
                <<"2", "0", "2", "3">>,
                <<"2", "4">>,
                <<"1", "9", "0", "0">>}
Paddings    == {<<>>, <<" ">>}

\* values a Date cell may hold
DateCells ==
    {pl \o mm \o <<"/">> \o dd \o <<"/">> \o yy \o pr :
        mm \in MonthFields, dd \in DayFields, yy \in YearFields,
        pl \in Paddings, pr \in Paddings}
    \cup {NaN, <<>>, <<" ", " ">>}
    \cup {<<"a", "b", "c">>,
          <<" ", "a", "b", "c", " ">>,
          <<"2", "0", "2", "4", "-", "0", "1", "-", "0", "2">>,
          <<"0", "1", "/", "0", "2", "/", "2", "0", "2", "4", " ", "1", "0", ":", "0", "0">>,
          <<"0", "1", "-", "0", "2", "-", "2", "0", "2", "4">>,
          <<"/">>}

\* values a temperature cell may hold
TempCells ==
    {NaN, <<>>} \cup
    {<<"2", "3", ".", "4", "5", "6">>,
     <<"2", "3", ",", "4">>,
     <<"a", "b", "c">>,
     <<"2", "2", ".", "2", "5">>,
     <<"-", "1", ".", "2", "6">>,
     <<"7">>,
     <<"1", ".", "2", ".", "3">>,
     <<"2", "3", ",", "4", ",", "5">>,
     <<"0", ",", "0", "4">>,
     <<",", "5">>,
     <<"1", "2", ",">>}

\* values a text cell may hold
TextCells ==
    {NaN, <<>>} \cup
    {<<"'", "-">>,
     <<"\"", "'", "-", "\"">>,
     <<" ", "'", "-", " ">>,
     <<"n", "a", "n">>,
     <<" ", "n", "a", "n", " ">>,
     <<"N", "a", "N">>,
     <<"o", "k">>,
     <<" ", "\"", "x", "\"", " ">>,
     <<"-">>,
     <<"n", "'", "a", "n">>,
     <<"'">>,
     <<"i", "t", "'", "s">>}

CellCalls ==
    [fn : {"convert_date_format"}, arg : DateCells]
    \cup [fn : {"temp_cell", "report_temp_cell"}, arg : TempCells]
    \cup [fn : {"clean_cell"}, arg : TextCells]

InitCell ==
    /\ printer = NoPrinter
    /\ log = <<>>
    /\ pc = "cell"
    /\ raw \in CellCalls
    /\ found = [value |-> <<>>]
    /\ gen = "none"
    /\ csv_path = <<>>
    /\ df = NoDf
    /\ missing_cols = <<>>
    /\ story = <<>>
    /\ exit_code = -1
    /\ output = FALSE
    /\ error = ""
    /\ entries = <<>>

Returned(v) ==
    /\ found' = [value |-> v]
    /\ pc' = "cell_done"
    /\ UNCHANGED <<gen, csv_path, raw, df, missing_cols, story, exit_code, output, error, entries, printer, log>>

\* df['Date'].apply(convert_date_format), one cell
ConvertDateFormat ==
    /\ pc = "cell" /\ raw.fn = "convert_date_format"
    /\ Returned(convert_date_format(raw.arg))

\* load_batch_data: comma to point, to_numeric, round(1), one cell
BatchTempCell ==
    /\ pc = "cell" /\ raw.fn = "temp_cell"
    /\ Returned(temp_cell(raw.arg))

\* generate_report._load_df: to_numeric, round(1), one cell
ReportTempCell ==
    /\ pc = "cell" /\ raw.fn = "report_temp_cell"
    /\ Returned(report_temp_cell(raw.arg))

\* clean_dataframe_data and the cleaning loop of load_operlog_data, one cell
CleanCell ==
    /\ pc = "cell" /\ raw.fn = "clean_cell"
    /\ Returned(clean_cell(raw.arg))

NextCell ==
    \/ ConvertDateFormat
    \/ BatchTempCell
    \/ ReportTempCell
    \/ CleanCell

SpecCell == InitCell /\ [][NextCell]_vars

\* the number written by the digits v[i..j], j - i < 4
FieldVal(v, i, j) ==
    LET F[k \in (i - 1)..j] == IF k < i THEN 0 ELSE 10 * F[k - 1] + DigitVal(v[k])
    IN  F[j]

\* days of month mm in year yyyy of the Gregorian calendar
DaysOf(mm, yyyy) ==
    IF mm = 2
    THEN (IF (yyyy % 4 = 0 /\ yyyy % 100 # 0) \/ yyyy % 400 = 0 THEN 29 ELSE 28)
    ELSE CalendarDays(mm, 1)

\* v, trimmed, is a valid date written month/day/year with a one- or
\* two-digit month and day and a four-digit year
ReadsAsDate(v) ==
    \E a \in 0..Len(v), m, d \in 1..2 :
        /\ \A i \in 1..a : IsBlank(v[i])
        /\ Len(v) >= a + m + d + 6
        /\ \A i \in (a + 1)..(a + m) : v[i] \in DigitSet
        /\ v[a + m + 1] = "/"
        /\ \A i \in (a + m + 2)..(a + m + d + 1) : v[i] \in DigitSet
        /\ v[a + m + d + 2] = "/"
        /\ \A i \in (a + m + d + 3)..(a + m + d + 6) : v[i] \in DigitSet
        /\ \A i \in (a + m + d + 7)..Len(v) : IsBlank(v[i])
        /\ FieldVal(v, a + m + d + 3, a + m + d + 6) >= 1
        /\ FieldVal(v, a + m + 2, a + m + d + 1) >= 1
        /\ FieldVal(v, a + m + 2, a + m + d + 1)
              <= DaysOf(FieldVal(v, a + 1, a + m), FieldVal(v, a + m + d + 3, a + m + d + 6))

\* v is exactly MM/DD/YYYY and names a day of the calendar
IsMMDDYYYY(v) ==
    /\ Len(v) = 10 /\ v[3] = "/" /\ v[6] = "/"
    /\ v[1] \in DigitSet /\ v[10] \in DigitSet
    /\ ReadsAsDate(v)

\* C17: date conversion returns its input unchanged when the input is not
\* a valid month/day/four-digit-year date (blank, missing, wrongly
\* formatted, padded and unparseable), and returns DD/MM/YY for a valid
\* MM/DD/YYYY input.
C17_DateConversionPassesThrough ==
    (pc = "cell_done" /\ raw.fn = "convert_date_format")
    => /\ IsMMDDYYYY(raw.arg)
            => found.value = <<raw.arg[4], raw.arg[5], "/", raw.arg[1], raw.arg[2],
                               "/", raw.arg[9], raw.arg[10]>>
       /\ (raw.arg = NaN \/ ~ReadsAsDate(raw.arg)) => found.value = raw.arg

\* the readings the temperature texts stand for, to one decimal place; a
\* text that is no number stands for the missing value
RoundedReading(v) ==
    CASE v = <<"2", "3", ".", "4", "5", "6">> -> {<<"2", "3", ".", "5">>}
      [] v = <<"2", "3", ",", "4">> -> {<<"2", "3", ".", "4">>}
      [] v = <<"2", "2", ".", "2", "5">> -> {<<"2", "2", ".", "2">>, <<"2", "2", ".", "3">>}
      [] v = <<"-", "1", ".", "2", "6">> -> {<<"-", "1", ".", "3">>}
      [] v = <<"7">> -> {<<"7", ".", "0">>}
      [] v = <<"0", ",", "0", "4">> -> {<<"0", ".", "0">>}
      [] v = <<",", "5">> -> {<<"0", ".", "5">>}
      [] v = <<"1", "2", ",">> -> {<<"1", "2", ".", "0">>}
      [] OTHER -> {NaN}

\* C18: a temperature value is read with a decimal comma taken as a
\* decimal point and rounded to one decimal place ("23.456" gives 23.5,
\* "23,4" gives 23.4); a value that is no number becomes null.
C18_TemperatureRoundedToOneDecimal ==
    (pc = "cell_done" /\ raw.fn \in {"temp_cell", "report_temp_cell"})
    => found.value \in RoundedReading(raw.arg)

\* C19: after text cleaning a cell whose raw content is the placeholder
\* apostrophe-hyphen is the empty string, and so is a cell holding the
\* text of a missing value.
C19_PlaceholderAndMissingBecomeEmpty ==
    (pc = "cell_done" /\ raw.fn = "clean_cell")
    => /\ (raw.arg = <<"'", "-">>) => found.value = <<>>
       /\ (raw.arg \in {NaN, <<"n", "a", "n">>}) => found.value = <<>>

----------------------------------------------------------------------------
(* Column widths of the data table.  Lengths are whole multiples of        *)
(* 1/840 mm, so that every share page_width/n with n <= 8 is exact.        *)

mm == 840
cm == 10 * mm

\* reportlab.lib.pagesizes: A4 = (210*mm, 297*mm); landscape swaps the sides
A4 == <<210 * mm, 297 * mm>>
landscape(size) == <<size[2], size[1]>>

NARROW_COLS == {<<"d", "a", "t", "e">>, <<"t", "i", "m", "e">>}
NARROW_W_MM == 25

Max2(a, b) == IF a >= b THEN a ELSE b

Repeat(x, n) == [i \in 1..n |-> x]

NoWidths == [raised |-> FALSE, widths |-> <<>>]
ZeroDivisionError == [raised |-> TRUE, widths |-> <<>>]
Widths(ws) == [raised |-> FALSE, widths |-> ws]

\* col_widths = [page_width/len(headers)] * len(headers)
equal_share(page_width, n) ==
    IF n = 0 THEN ZeroDivisionError ELSE Widths(Repeat(page_width \div n, n))

\* generate_report_alarm.create_pdf_report, "Calcola larghezze colonne"
alarm_col_widths(headers) ==
    LET page_width == A4[1] - 4 * cm
    IN  IF Len(headers) = 4
        THEN Widths(<<18 * mm, 18 * mm, page_width - 68 * mm, 32 * mm>>)
        ELSE equal_share(page_width, Len(headers))

\* generate_report_operlog.create_pdf_report, "Calcola larghezze colonne"
operlog_col_widths(headers) ==
    LET page_width == A4[1] - 4 * cm
    IN  IF Len(headers) = 7
        THEN Widths(<<16 * mm, 16 * mm, 22 * mm, 32 * mm, 18 * mm, 28 * mm, 28 * mm>>)
        ELSE equal_share(page_width, Len(headers))

\* generate_report_batch.create_pdf_report, "Calcola larghezze colonne (allargate)"
batch_col_widths(headers) ==
    LET page_width == A4[1] - 3 * cm
    IN  IF Len(headers) = 7
        THEN Widths(<<2 * cm, 2 * cm, 35 * mm, 2 * cm, 2 * cm, 2 * cm, 2 * cm>>)
        ELSE equal_share(page_width, Len(headers))

\* mutant: the share is rem / wid, without max(wid, 1)
col_widths_unguarded(headers, pw) ==
    LET avail == pw - 20 * mm
        Narrow(c) == lower(c) \in NARROW_COLS
        nar == SelectSeq(headers, Narrow)
        nw == NARROW_W_MM * mm
        wid == Len(headers) - Len(nar)
        rem == Max2(avail - Len(nar) * nw, 10 * mm)
    IN  IF wid = 0 THEN ZeroDivisionError
        ELSE Widths([i \in 1..Len(headers) |->
                        IF Narrow(headers[i]) THEN nw ELSE rem \div wid])

\* generate_report._col_widths(df, pw)
col_widths(headers, pw) ==
    LET avail == pw - 20 * mm
        Narrow(c) == lower(c) \in NARROW_COLS
        nar == SelectSeq(headers, Narrow)
        nw == NARROW_W_MM * mm
        wid == Len(headers) - Len(nar)
        rem == Max2(avail - Len(nar) * nw, 10 * mm)
        ww == rem \div Max2(wid, 1)
    IN  Widths([i \in 1..Len(headers) |-> IF Narrow(headers[i]) THEN nw ELSE ww])

\* the columns of a schema that survive, in schema order
Surviving(schema, keep) ==
    LET F[i \in 0..Len(schema)] ==
            IF i = 0 THEN <<>>
            ELSE IF i \in keep THEN Append(F[i - 1], schema[i]) ELSE F[i - 1]
    IN  F[Len(schema)]

Layouts == {"alarm", "batch", "operlog", "report:alarm", "report:operlog", "report:other"}

LayoutSchema(l) ==
    CASE l = "alarm"          -> required_cols("alarm")
      [] l = "operlog"        -> required_cols("operlog")
      [] l = "batch"          -> required_cols("batch")
      [] l = "report:alarm"   -> MODE_COLS("alarm")
      [] l = "report:operlog" -> MODE_COLS("operlog")
      [] l = "report:other"   -> MODE_COLS("other")

InitWidths ==
    /\ printer = NoPrinter
    /\ log = <<>>
    /\ pc = "widths"
    /\ \E l \in Layouts : \E keep \in SUBSET (1..Len(LayoutSchema(l))) :
          raw = [layout |-> l, headers |-> Surviving(LayoutSchema(l), keep)]
    /\ found = NoWidths
    /\ gen = "none"
    /\ csv_path = <<>>
    /\ df = NoDf
    /\ missing_cols = <<>>
    /\ story = <<>>
    /\ exit_code = -1
    /\ output = FALSE
    /\ error = ""
    /\ entries = <<>>

Laid(w) ==
    /\ found' = w
    /\ pc' = "widths_done"
    /\ UNCHANGED <<gen, csv_path, raw, df, missing_cols, story, exit_code, output, error, entries, printer, log>>

AlarmColWidths ==
    /\ pc = "widths" /\ raw.layout = "alarm"
    /\ Laid(alarm_col_widths(raw.headers))

OperlogColWidths ==
    /\ pc = "widths" /\ raw.layout = "operlog"
    /\ Laid(operlog_col_widths(raw.headers))

BatchColWidths ==
    /\ pc = "widths" /\ raw.layout = "batch"
    /\ Laid(batch_col_widths(raw.headers))

\* pw, _ = landscape(A4); Table(data, colWidths=_col_widths(df, pw), ...)
ReportColWidths ==
    /\ pc = "widths" /\ raw.layout \in {"report:alarm", "report:operlog", "report:other"}
    /\ Laid(col_widths(raw.headers, landscape(A4)[1]))

NextWidths ==
    \/ AlarmColWidths
    \/ OperlogColWidths
    \/ BatchColWidths
    \/ ReportColWidths

SpecWidths == InitWidths /\ [][NextWidths]_vars

SumOf(ws) ==
    LET F[i \in 0..Len(ws)] == IF i = 0 THEN 0 ELSE F[i - 1] + ws[i]
    IN  F[Len(ws)]

\* the page width less the left and right margins given to SimpleDocTemplate
UsableWidth(l) ==
    IF l \in {"alarm", "batch", "operlog"}
    THEN A4[1] - (2 * cm + 2 * cm)
    ELSE landscape(A4)[1] - (10 * mm + 10 * mm)

\* C20: whatever the generator and however many columns survive, the widths
\* of the table's columns add up to no more than the page width less the
\* document's left and right margins.
C20_WidthsFitUsablePage ==
    (pc = "widths_done" /\ ~found.raised)
    => SumOf(found.widths) <= UsableWidth(raw.layout)

\* every column of the laid-out table is a date or time column
OnlyNarrow(headers) ==
    /\ headers # <<>>
    /\ \A i \in 1..Len(headers) : lower(headers[i]) \in NARROW_COLS

\* C21: for a non-empty column list made only of date and time columns,
\* _col_widths divides by nothing that is zero and returns one strictly
\* positive width per column, the widths adding up to at most the
\* available width.
C21_NoFlexibleColumns ==
    (/\ pc = "widths_done"
     /\ raw.layout \in {"report:alarm", "report:operlog", "report:other"}
     /\ OnlyNarrow(raw.headers))
    => /\ ~found.raised
       /\ Len(found.widths) = Len(raw.headers)
       /\ \A i \in 1..Len(found.widths) : found.widths[i] > 0
       /\ SumOf(found.widths) <= landscape(A4)[1] - 20 * mm

C21_Witness ==
    /\ pc = "widths_done"
    /\ raw.layout = "report:other"
    /\ raw.headers = <<cDate, cTime>>
    /\ found.widths = <<NARROW_W_MM * mm, NARROW_W_MM * mm>>

----------------------------------------------------------------------------
(* The log file beside the executable, over several runs of one program *)

MaxRuns == 3
MaxWrites == 2

LogPrograms == {"alarm", "batch", "operlog", "report"}

\* open(log_file, 'w', encoding='utf-8'): the file is emptied
open_w(lines) == <<>>

\* logging.FileHandler(LOG_PATH, encoding="utf-8"): mode 'a', the file is kept
open_a(lines) == lines

InitLog ==
    /\ printer = NoPrinter
    /\ log = <<>>
    /\ pc = "log_idle"
    /\ gen \in LogPrograms
    /\ raw = [frozen |-> FALSE, run |-> 0, writes |-> 0, attached |-> FALSE]
    /\ csv_path = <<>>
    /\ df = NoDf
    /\ missing_cols = <<>>
    /\ story = <<>>
    /\ exit_code = -1
    /\ output = FALSE
    /\ error = ""
    /\ entries = <<>>
    /\ found = NoFound

LogStep(lines, r, label) ==
    /\ log' = lines
    /\ raw' = r
    /\ pc' = label
    /\ UNCHANGED <<gen, csv_path, df, missing_cols, story, exit_code, output, error, entries, found, printer>>

\* main() of a dedicated generator: when sys.frozen, stdout and stderr are
\* redirected into the log file opened with 'w'; a failed open is ignored
StartGenerator ==
    /\ pc = "log_idle" /\ gen \in {"alarm", "batch", "operlog"}
    /\ raw.run < MaxRuns
    /\ \E frozen \in BOOLEAN, opened \in BOOLEAN :
         LET attached == frozen /\ opened
         IN  LogStep(IF attached THEN open_w(log) ELSE log,
                     [frozen |-> frozen, run |-> raw.run + 1, writes |-> 0,
                      attached |-> attached],
                     "log_running")

\* import of generate_report.py: logging.basicConfig(handlers=[FileHandler(LOG_PATH)])
StartReport ==
    /\ pc = "log_idle" /\ gen = "report"
    /\ raw.run < MaxRuns
    /\ \E frozen \in BOOLEAN :
         LogStep(open_a(log),
                 [frozen |-> frozen, run |-> raw.run + 1, writes |-> 0, attached |-> TRUE],
                 "log_running")

\* print(...) or log.info(...): one more line in the file the run writes to
WriteLog ==
    /\ pc = "log_running" /\ raw.writes < MaxWrites
    /\ LogStep(IF raw.attached
               THEN Append(log, [run |-> raw.run, line |-> raw.writes + 1])
               ELSE log,
               [raw EXCEPT !.writes = @ + 1],
               "log_running")

\* the process ends
EndRun ==
    /\ pc = "log_running"
    /\ LogStep(log, raw, "log_idle")

NextLog ==
    \/ StartGenerator
    \/ StartReport
    \/ WriteLog
    \/ EndRun

SpecLog == InitLog /\ [][NextLog]_vars

\* C28: the log file only grows: every line an earlier run wrote is still
\* there, at its place, after any later step of any run of the program.
C28_LogIsAppendOnly ==
    [][/\ Len(log') >= Len(log)
       /\ \A i \in 1..Len(log) : log'[i] = log[i]]_vars

----------------------------------------------------------------------------
(* Soft wrapping of long cells in create_pdf_report *)

MaxWords == 4

\* str.split(): the maximal runs of non-blank characters
RECURSIVE split_from(_, _, _, _)
split_from(s, i, words, cur) ==
    IF i > Len(s) THEN (IF cur # <<>> THEN Append(words, cur) ELSE words)
    ELSE IF IsSpace(s[i])
         THEN split_from(s, i + 1, IF cur # <<>> THEN Append(words, cur) ELSE words, <<>>)
         ELSE split_from(s, i + 1, words, Append(cur, s[i]))

split(s) == split_from(s, 1, <<>>, <<>>)

\* the loop of generate_report_batch: the running line is stored whenever
\* the next word would pass 15 characters, be it empty or not
wrap_batch(words) ==
    LET G[i \in 0..Len(words)] ==
            IF i = 0 THEN [lines |-> <<>>, current_line |-> <<>>]
            ELSE LET p == G[i - 1]
                     word == words[i]
                 IN  IF Len(p.current_line) + Len(word) > 15
                     THEN [lines |-> Append(p.lines, p.current_line), current_line |-> word]
                     ELSE [lines |-> p.lines,
                           current_line |-> IF p.current_line # <<>>
                                            THEN p.current_line \o <<" ">> \o word
                                            ELSE word]
        end == G[Len(words)]
    IN  IF end.current_line # <<>> THEN Append(end.lines, end.current_line) ELSE end.lines

\* the loop of generate_report_operlog: threshold 25, an empty running line
\* is not stored, every stored line is stripped
wrap_operlog(words) ==
    LET G[i \in 0..Len(words)] ==
            IF i = 0 THEN [wrapped_lines |-> <<>>, current_line |-> <<>>]
            ELSE LET p == G[i - 1]
                     word == words[i]
                 IN  IF Len(p.current_line) + Len(word) > 25
                     THEN [wrapped_lines |-> IF p.current_line # <<>>
                                             THEN Append(p.wrapped_lines, strip(p.current_line))
                                             ELSE p.wrapped_lines,
                           current_line |-> word]
                     ELSE [wrapped_lines |-> p.wrapped_lines,
                           current_line |-> IF p.current_line # <<>>
                                            THEN p.current_line \o <<" ">> \o word
                                            ELSE word]
        end == G[Len(words)]
    IN  IF end.current_line # <<>>
        THEN Append(end.wrapped_lines, strip(end.current_line))
        ELSE end.wrapped_lines

NotWrapped == [wrapped |-> FALSE, lines |-> <<>>]

\* generate_report_batch: cells longer than 30 characters are wrapped
wrap_cell_batch(cell_value) ==
    IF Len(cell_value) > 10 /\ Len(cell_value) > 30
    THEN [wrapped |-> TRUE, lines |-> wrap_batch(split(cell_value))]
    ELSE NotWrapped

wrap_cols == {cObject_Action, cPreviousValue, cChangedValue, cUser, cTrigger}

\* generate_report_operlog: cells of the text columns longer than 40 characters
wrap_cell_operlog(col, cell_value) ==
    IF col \in wrap_cols /\ Len(cell_value) > 15 /\ Len(cell_value) > 40
    THEN [wrapped |-> TRUE, lines |-> wrap_operlog(split(cell_value))]
    ELSE NotWrapped

\* words of 1, 5, 10, 15, 16 and 26 characters
WordOf(n, ch) == [i \in 1..n |-> ch]
WrapWords == {WordOf(1, "a"), WordOf(5, "b"), WordOf(10, "c"), WordOf(15, "d"),
              WordOf(16, "e"), WordOf(26, "f")}

RECURSIVE JoinWords(_)
JoinWords(ws) ==
    IF ws = <<>> THEN <<>>
    ELSE IF Len(ws) = 1 THEN ws[1]
    ELSE ws[1] \o <<" ">> \o JoinWords(Tail(ws))

WrapCells == {JoinWords(ws) : ws \in UNION {[1..n -> WrapWords] : n \in 1..MaxWords}}

InitWrap ==
    /\ printer = NoPrinter
    /\ log = <<>>
    /\ pc = "wrap"
    /\ gen \in {"batch", "operlog"}
    /\ \E col \in {cUser, cDate}, cell \in WrapCells :
          raw = [col |-> IF gen = "operlog" THEN col ELSE cUSER, cell |-> cell]
    /\ found = NotWrapped
    /\ csv_path = <<>>
    /\ df = NoDf
    /\ missing_cols = <<>>
    /\ story = <<>>
    /\ exit_code = -1
    /\ output = FALSE
    /\ error = ""
    /\ entries = <<>>

WrapCellBatch ==
    /\ pc = "wrap" /\ gen = "batch"
    /\ found' = wrap_cell_batch(raw.cell)
    /\ pc' = "wrap_done"
    /\ UNCHANGED <<gen, csv_path, raw, df, missing_cols, story, exit_code, output, error, entries, printer, log>>

WrapCellOperlog ==
    /\ pc = "wrap" /\ gen = "operlog"
    /\ found' = wrap_cell_operlog(raw.col, raw.cell)
    /\ pc' = "wrap_done"
    /\ UNCHANGED <<gen, csv_path, raw, df, missing_cols, story, exit_code, output, error, entries, printer, log>>

NextWrap ==
    \/ WrapCellBatch
    \/ WrapCellOperlog

SpecWrap == InitWrap /\ [][NextWrap]_vars

\* the words of the lines, read line after line
RECURSIVE WordsOfLines(_)
WordsOfLines(lines) ==
    IF lines = <<>> THEN <<>>
    ELSE split(lines[1]) \o WordsOfLines(Tail(lines))

WrapThreshold == IF gen = "batch" THEN 15 ELSE 25

\* C29: the lines of a wrapped cell hold the cell's words, all of them, once
\* each and in their order; no line is empty; a line of several words is at
\* most one character longer than the threshold (15 batch, 25 operlog).
C29_WrapAtWordBoundaries ==
    (pc = "wrap_done" /\ found.wrapped)
    => /\ WordsOfLines(found.lines) = split(raw.cell)
       /\ \A i \in 1..Len(found.lines) :
            /\ found.lines[i] # <<>>
            /\ Len(split(found.lines[i])) > 1 => Len(found.lines[i]) <= WrapThreshold + 1

----------------------------------------------------------------------------
(* print_latest_pdf.py: the newest report and the newest trend chart *)

MaxPdfs == 3

sTrendSuffix == <<"_", "t", "e", "m", "p", "e", "r", "a", "t", "u", "r", "e", "_",
                  "t", "r", "e", "n", "d", ".", "p", "d", "f">>
sDotPdf == <<".", "p", "d", "f">>

fPdfA == <<"a", ".", "p", "d", "f">>
fPdfB == <<"b", ".", "p", "d", "f">>
fTrendA == <<"a">> \o sTrendSuffix
fTrendB == <<"b">> \o sTrendSuffix
fCsvA == <<"a", ".", "c", "s", "v">>

PdfNames == {fPdfA, fPdfB, fTrendA, fTrendB, fCsvA}
PdfFiles == [name : PdfNames, mtime : 1..2]

\* the files of the current folder, in directory order
PdfListings ==
    UNION { {e \in [1..n -> PdfFiles] :
                \A i, j \in 1..n : i # j => e[i].name # e[j].name} : n \in 0..MaxPdfs }

None == <<>>

IsPdf(f) == endswith(f.name, sDotPdf)
IsTrend(f) == endswith(f.name, sTrendSuffix)
IsMainPdf(f) == IsPdf(f) /\ ~IsTrend(f)

\* find_latest_pdfs(folder): (latest_main, latest_trend), None where there is none
find_latest_pdfs(files) ==
    LET pdf_files  == SelectSeq(files, IsPdf)
        main_pdfs  == SelectSeq(pdf_files, IsMainPdf)
        trend_pdfs == SelectSeq(pdf_files, IsTrend)
    IN  [latest_main  |-> IF main_pdfs # <<>> THEN first_max(main_pdfs, mtime_less).name
                          ELSE None,
         latest_trend |-> IF trend_pdfs # <<>> THEN first_max(trend_pdfs, mtime_less).name
                          ELSE None]

\* pdfs_to_print: the main PDF, then the trend PDF, each when it exists
pdfs_to_print(latest) ==
    (IF latest.latest_main # None THEN <<latest.latest_main>> ELSE <<>>)
    \o (IF latest.latest_trend # None THEN <<latest.latest_trend>> ELSE <<>>)

\* mutant: the loop is left at the first failure
rest_after_failure_abandoned(queue) == <<>>

\* except Exception: the error is printed and the loop goes on
rest_after_failure(queue) == Tail(queue)

InitPrintLatest ==
    /\ printer = NoPrinter
    /\ log = <<>>
    /\ pc = "pl_main"
    /\ \E fl \in PdfListings :
         entries = <<[name |-> <<".">>, isdir |-> TRUE, files |-> fl]>>
    /\ found = [latest_main |-> None, latest_trend |-> None,
                queue |-> <<>>, sent |-> <<>>, failed |-> {}]
    /\ gen = "none"
    /\ csv_path = <<>>
    /\ raw = ParseError
    /\ df = NoDf
    /\ missing_cols = <<>>
    /\ story = <<>>
    /\ exit_code = -1
    /\ output = FALSE
    /\ error = ""

\* latest_main, latest_trend = find_latest_pdfs(); sys.exit(1) when both are None
FindLatestPdfs ==
    /\ pc = "pl_main"
    /\ LET latest == find_latest_pdfs(entries[1].files)
       IN  IF latest.latest_main = None /\ latest.latest_trend = None
           THEN /\ exit_code' = 1
                /\ pc' = "pl_done"
                /\ UNCHANGED found
           ELSE /\ found' = [found EXCEPT !.latest_main = latest.latest_main,
                                          !.latest_trend = latest.latest_trend,
                                          !.queue = pdfs_to_print(latest)]
                /\ pc' = "pl_print"
                /\ UNCHANGED exit_code
    /\ UNCHANGED <<gen, csv_path, raw, df, missing_cols, story, output, error, entries, printer, log>>

\* one turn of the loop of print_pdfs_windows: os.startfile(pdf_path, "print")
\* returns or raises
PrintNextPdf ==
    /\ pc = "pl_print" /\ found.queue # <<>>
    /\ \E raised \in BOOLEAN :
         found' = [found EXCEPT
                     !.sent = Append(@, found.queue[1]),
                     !.failed = IF raised THEN @ \cup {found.queue[1]} ELSE @,
                     !.queue = IF raised THEN rest_after_failure(found.queue)
                               ELSE Tail(found.queue)]
    /\ printer' = [printer EXCEPT !.requests = @ + 1]
    /\ UNCHANGED <<pc, gen, csv_path, raw, df, missing_cols, story, exit_code, output, error, entries, log>>

\* print("Stampa completata."); main() returns
PrintLatestDone ==
    /\ pc = "pl_print" /\ found.queue = <<>>
    /\ exit_code' = 0
    /\ pc' = "pl_done"
    /\ UNCHANGED <<gen, csv_path, raw, df, missing_cols, story, output, error, entries, found, printer, log>>

NextPrintLatest ==
    \/ FindLatestPdfs
    \/ PrintNextPdf
    \/ PrintLatestDone

SpecPrintLatest == InitPrintLatest /\ [][NextPrintLatest]_vars

\* the files of the folder that are PDFs of the given sort
FolderMainPdfs == {i \in 1..Len(entries[1].files) : IsMainPdf(entries[1].files[i])}
FolderTrendPdfs == {i \in 1..Len(entries[1].files) : IsTrend(entries[1].files[i])}

\* name is one of the newest files among the indices in among
NewestOf(name, among) ==
    \E i \in among : /\ entries[1].files[i].name = name
                     /\ \A j \in among : entries[1].files[j].mtime <= entries[1].files[i].mtime

\* the requests a finished run must have made, in order
ExpectedRequests(sent) ==
    LET nm == IF FolderMainPdfs # {} THEN 1 ELSE 0
        nt == IF FolderTrendPdfs # {} THEN 1 ELSE 0
    IN  /\ Len(sent) = nm + nt
        /\ nm = 1 => NewestOf(sent[1], FolderMainPdfs)
        /\ nt = 1 => NewestOf(sent[nm + 1], FolderTrendPdfs)

\* C30: a run makes at most two print requests, the newest main PDF first
\* and the newest temperature-trend PDF second, a failure on the first not
\* stopping the second; it ends with an error and no request only when the
\* folder holds no PDF.
C30_PrintLatestMainThenTrend ==
    /\ Len(found.sent) <= 2 /\ printer.requests = Len(found.sent)
    /\ (pc = "pl_done")
         => /\ ExpectedRequests(found.sent)
            /\ (exit_code = 1) <=> (FolderMainPdfs \cup FolderTrendPdfs = {})
            /\ (exit_code = 1) => found.sent = <<>>

C30_Witness ==
    /\ pc = "pl_done" /\ exit_code = 0
    /\ found.sent = <<fPdfB, fTrendA>>
    /\ found.failed = {fPdfB}
    /\ Len(entries[1].files) = 3

====
